---- MODULE Spec2Model ----
(***************************************************************************)
(* The ledger transaction engine of the wallet service: the three write    *)
(* operations of ledger.service.ts (createTransaction,                     *)
(* createCreditOnlyTransaction, createDebitOnlyTransaction), each run by   *)
(* withTransaction as one PostgreSQL transaction at ISOLATION LEVEL        *)
(* SERIALIZABLE against the ledger_entries and wallets tables.             *)
(*                                                                         *)
(* The store is modelled as PostgreSQL behaves for the statements the code *)
(* issues:                                                                 *)
(*   - a transaction reads the snapshot taken by its first query (the      *)
(*     idempotency lookup) plus its own uncommitted rows;                  *)
(*   - SELECT ... FOR UPDATE NOWAIT takes the row locks one row at a time  *)
(*     in ORDER BY order and raises 55P03 on the first row another         *)
(*     transaction holds; locks are released by COMMIT or ROLLBACK;        *)
(*   - INSERT checks CHECK (amount > 0) and UNIQUE (reference_id,          *)
(*     entry_type); an insert that collides with an uncommitted row of     *)
(*     another transaction waits for that transaction to end;              *)
(*   - SERIALIZABLE cancels (40001) a transaction that is the pivot of a   *)
(*     dangerous structure  Tin -rw-> Tpivot -rw-> Tout  whose Tout        *)
(*     committed first, or that reads past a committed pivot; the SIREAD   *)
(*     lock a query takes covers the rows its WHERE clause selects (index  *)
(*     scan) or the whole of ledger_entries (sequential scan), as the      *)
(*     planner chooses.                                                    *)
(***************************************************************************)
EXTENDS Integers, Sequences, FiniteSets, TLC

\* ------------------------------------------------------------------ bounds
NumOps == 2
NumRetries == 1
MaxAmount == 2
SeedAmount == 1

OpIds == 1..(NumOps + NumRetries)
Wallets == 1..(2 * NumOps)
CallWallets == {1, 2}
Assets == {1, 2}
SeededAssets == {1}
Amounts == 1..MaxAmount
CallerKeys == {"a", "a_credit", "b"}

\* The wallets the endpoints use: the caller's, and the system wallets that
\* findSystemWalletByName returns for top-ups and spends.
UserWallet == 1
TreasuryWallet == 2
RevenueWallet == 3

SeedXid == 0

\* A metadata object is modelled by its string values, each a sequence of
\* UTF-16 code units; an absent or empty object has none.
NoMetadata == <<>>
Metadata == {NoMetadata, << <<120>> >>, << <<0>> >>}

\* The transaction of the administrator's UPDATE that deactivates wallet w.
AdminXid(w) == 0 - w
NoTx == 0
NoInt == 0 - 1

VARIABLES
    ledger,      \* committed rows of ledger_entries
    written,     \* written[o]: rows inserted by operation o (uncommitted until COMMIT)
    reads,       \* reads[o]: predicates operation o has read (its SIREAD locks)
    snapshot,    \* snapshot[o]: transactions whose rows o's snapshot sees
    rowLocks,    \* rowLocks[o]: wallets rows o holds FOR UPDATE
    pc,          \* pc[o]: state of operation o
    req,         \* req[o]: the parameters o was called with
    err,         \* err[o]: the error o's promise rejected with
    res,         \* res[o]: the value o's promise resolved with
    commitSeq,   \* commitSeq[o]: position of o's COMMIT in commit order, 0 if none
    calledAt,    \* calledAt[o]: number of transactions committed when o was called
    wallet_balances, \* the materialized view: balance of each (wallet, asset) pair
    api,         \* api[o]: the body of the HTTP request call o serves, if any
    response,    \* response[o]: the balance field of the response to call o
    history,     \* the latest transaction-history query and its response
    is_active,   \* is_active[w]: the committed value of wallets.is_active of wallet w
    metadata,    \* metadata[o]: the string values of the metadata object o was called with
    details,     \* the last answer of getTransactionDetails
    client,      \* client[c]: the connection of call c of withTransaction and what was done with it
    nextId       \* next value of the BIGSERIAL ledger_entries.id

vars == <<ledger, written, reads, snapshot, rowLocks, pc, req, err, res, commitSeq, calledAt,
          wallet_balances, api, response, history, is_active, metadata, details, client, nextId>>
apiVars == <<wallet_balances, api, response, history, is_active, metadata, details, client>>

\* ------------------------------------------------------------------ data
Requests ==
    [kind : {"transfer"}, sourceWalletId : CallWallets, targetWalletId : CallWallets,
     assetTypeId : Assets, amount : Amounts, referenceId : CallerKeys]
    \cup
    {r \in [kind : {"creditOnly", "debitOnly"}, sourceWalletId : CallWallets,
            targetWalletId : CallWallets, assetTypeId : Assets, amount : Amounts,
            referenceId : CallerKeys] : r.sourceWalletId = r.targetWalletId}

NoRequest ==
    [kind |-> "none", sourceWalletId |-> 0, targetWalletId |-> 0, assetTypeId |-> 0,
     amount |-> 0, referenceId |-> ""]

NoApiRequest ==
    [endpoint |-> "none", user_id |-> 0, asset_code |-> 0, amount |-> [n |-> 0, d |-> 1],
     reference_id |-> ""]

NoError ==
    [code |-> "none", required |-> NoInt, available |-> NoInt,
     referenceId |-> "", existingTransactionId |-> NoTx]

NoResult == [transactionId |-> NoTx, newBalance |-> NoInt]

\* No answer of getTransactionDetails yet.
NoDetails == [reference_id |-> "", code |-> "none", transaction_id |-> NoTx, ledger_entries |-> {}]

NoHistory ==
    [walletId |-> 0, assetTypeId |-> 0, limit |-> 0, offset |-> 0,
     transactions |-> <<>>, hasMore |-> FALSE]

\* A call of withTransaction that has not asked the pool for a connection yet.
NoClient ==
    [pc |-> "idle", queries |-> <<>>, failed |-> "none", rollbackFailed |-> FALSE,
     released |-> 0]

\* The rows the seed script leaves behind: one INITIAL_BALANCE credit per wallet
\* in the seeded assets, each with a transaction_id of its own, all committed
\* (as SeedXid) before the first call.
SeedEntries ==
    {[id |-> w, transaction_id |-> 0 - w, wallet_id |-> w, asset_type_id |-> a,
      entry_type |-> "CREDIT", amount |-> SeedAmount,
      reference_id |-> "init_" \o ToString(w) \o "_" \o ToString(a),
      created_at |-> 0, xmin |-> SeedXid]
        : w \in Wallets, a \in SeededAssets}

\* uuidv4(): a value no other call returns; one call per operation.
uuidv4(o) == o

InFlight(o) == pc[o] \notin {"idle", "COMMITTED", "ABORTED"}
Committed(o) == pc[o] = "COMMITTED"

\* ------------------------------------------------------------------ errors
DuplicateTransactionError(referenceId, existingTransactionId) ==
    [NoError EXCEPT !.code = "DUPLICATE_TRANSACTION", !.referenceId = referenceId,
                    !.existingTransactionId = existingTransactionId]

InsufficientFundsErrorSwapped(required, available) ==
    [NoError EXCEPT !.code = "INSUFFICIENT_FUNDS", !.required = available,
                    !.available = required]

InsufficientFundsError(required, available) ==
    [NoError EXCEPT !.code = "INSUFFICIENT_FUNDS", !.required = required,
                    !.available = available]

ConcurrencyError == [NoError EXCEPT !.code = "CONCURRENCY_ERROR"]

ValidationError == [NoError EXCEPT !.code = "VALIDATION_ERROR"]

\* An error of the pg driver, carrying PostgreSQL's SQLSTATE as its code.
PostgresError(sqlstate) == [NoError EXCEPT !.code = sqlstate]

\* The response the error handler middleware sends for a thrown error.
errorHandler(error) ==
    IF error.code \in {"DUPLICATE_TRANSACTION", "CONCURRENCY_ERROR"}
    THEN [status |-> 409, code |-> error.code,
          existingTransactionId |-> error.existingTransactionId]
    ELSE IF error.code \in {"INSUFFICIENT_FUNDS", "VALIDATION_ERROR"}
    THEN [status |-> 400, code |-> error.code, existingTransactionId |-> NoTx]
    ELSE IF error.code = "23505"
    THEN [status |-> 409, code |-> "DUPLICATE_TRANSACTION", existingTransactionId |-> NoTx]
    ELSE IF error.code = "40001"
    THEN [status |-> 409, code |-> "CONCURRENCY_ERROR", existingTransactionId |-> NoTx]
    ELSE IF error.code = "55P03"
    THEN [status |-> 503, code |-> "LOCK_NOT_AVAILABLE", existingTransactionId |-> NoTx]
    ELSE [status |-> 500, code |-> "INTERNAL_ERROR", existingTransactionId |-> NoTx]

\* ------------------------------------------------------------------ reads
\* The rows operation o's statements see: its snapshot plus its own inserts.
Visible(o) == {e \in ledger : e.xmin \in snapshot[o]} \cup written[o]

RECURSIVE SumSigned(_)
SumSigned(rows) ==
    IF rows = {} THEN 0
    ELSE LET e == CHOOSE x \in rows : TRUE
         IN  (IF e.entry_type = "CREDIT" THEN e.amount ELSE 0 - e.amount)
             + SumSigned(rows \ {e})

calculateBalanceOfWallet(rows, walletId, assetTypeId) ==
    SumSigned({e \in rows : e.wallet_id = walletId})

\* SELECT COALESCE(SUM(CASE WHEN entry_type = 'CREDIT' THEN amount ELSE -amount END), 0)
\* FROM ledger_entries WHERE wallet_id = $1 AND asset_type_id = $2, over `rows`.
calculateBalance(rows, walletId, assetTypeId) ==
    SumSigned({e \in rows : e.wallet_id = walletId /\ e.asset_type_id = assetTypeId})

\* SELECT ... WHERE reference_id = $1 LIMIT 1 has no ORDER BY: any matching row.
findLedgerEntryByReferenceId(rows, referenceId) ==
    {e \in rows : e.reference_id = referenceId}

BalancePredicate(w, a) == [t |-> "balance", wallet_id |-> w, asset_type_id |-> a, reference_id |-> ""]
ReferencePredicate(k) == [t |-> "reference", wallet_id |-> 0, asset_type_id |-> 0, reference_id |-> k]

\* The SIREAD lock of a sequential scan: the relation ledger_entries.
RelationPredicate == [t |-> "relation", wallet_id |-> 0, asset_type_id |-> 0, reference_id |-> ""]

Matches(p, e) ==
    IF p.t = "relation" THEN TRUE
    ELSE IF p.t = "reference" THEN e.reference_id = p.reference_id
    ELSE e.wallet_id = p.wallet_id /\ e.asset_type_id = p.asset_type_id

\* The SIREAD locks operation o may hold after a query with predicate p: the
\* planner runs the query as an index scan, which locks what p selects, or as a
\* sequential scan, which locks the relation and replaces the finer locks.
SIReadLock(o, p) ==
    {[reads EXCEPT ![o] = IF RelationPredicate \in @ THEN @ ELSE @ \cup {p}],
     [reads EXCEPT ![o] = {RelationPredicate}]}

\* ------------------------------------------------------------------ SERIALIZABLE
\* r -rw-> w: concurrent transactions, r read a predicate that a row written by
\* w matches, and r's snapshot does not see w.
rwConflict(rd, wr, r, w) ==
    /\ r # w
    /\ pc[r] \notin {"idle", "ABORTED"}
    /\ pc[w] \notin {"idle", "ABORTED"}
    /\ w \notin snapshot[r]
    /\ r \notin snapshot[w]
    /\ \E p \in rd[r], e \in wr[w] : Matches(p, e)

committedFirst(tout, t) ==
    Committed(tout) /\ (t = tout \/ ~Committed(t) \/ commitSeq[tout] < commitSeq[t])

\* The transaction o is cancelled with SQLSTATE 40001 when, with the predicates
\* rd and rows wr read and written so far, it is the pivot of a dangerous
\* structure whose Tout committed first, or its Tin while the pivot is committed.
SerializationFailureOn(rd, wr, o) ==
    \E tin \in OpIds, p \in OpIds, tout \in OpIds :
        /\ rwConflict(rd, wr, tin, p)
        /\ rwConflict(rd, wr, p, tout)
        /\ committedFirst(tout, p)
        /\ committedFirst(tout, tin)
        /\ (o = p \/ (o = tin /\ Committed(p)))

isolationLevelRepeatableRead == "REPEATABLE READ"

\* `BEGIN ISOLATION LEVEL ${isolationLevel}`: the default of withTransaction,
\* which no caller overrides.
isolationLevel == "SERIALIZABLE"

SerializationFailure(rd, wr, o) ==
    isolationLevel = "SERIALIZABLE" /\ SerializationFailureOn(rd, wr, o)

\* ------------------------------------------------------------------ withTransaction
Init ==
    /\ ledger = SeedEntries
    /\ written = [o \in OpIds |-> {}]
    /\ reads = [o \in OpIds |-> {}]
    /\ snapshot = [o \in OpIds |-> {}]
    /\ rowLocks = [o \in OpIds |-> {}]
    /\ pc = [o \in OpIds |-> "idle"]
    /\ req = [o \in OpIds |-> NoRequest]
    /\ err = [o \in OpIds |-> NoError]
    /\ res = [o \in OpIds |-> NoResult]
    /\ commitSeq = [o \in OpIds |-> 0]
    /\ calledAt = [o \in OpIds |-> 0]
    /\ wallet_balances = [p \in Wallets \X Assets |-> calculateBalance(SeedEntries, p[1], p[2])]
    /\ api = [o \in OpIds |-> NoApiRequest]
    /\ response = [o \in OpIds |-> NoInt]
    /\ history = NoHistory
    /\ is_active = [w \in Wallets |-> TRUE]
    /\ metadata = [o \in OpIds |-> NoMetadata]
    /\ details = NoDetails
    /\ client = [c \in 1..NumOps |-> NoClient]
    /\ nextId = Cardinality(SeedEntries) + 1

RollbackKeepingWrites(o, error) ==
    /\ pc' = [pc EXCEPT ![o] = "ABORTED"]
    /\ err' = [err EXCEPT ![o] = error]
    /\ ledger' = ledger \cup written[o]
    /\ written' = [written EXCEPT ![o] = {}]
    /\ reads' = [reads EXCEPT ![o] = {}]
    /\ snapshot' = [snapshot EXCEPT ![o] = {}]
    /\ rowLocks' = [rowLocks EXCEPT ![o] = {}]
    /\ UNCHANGED <<req, res, commitSeq>>

\* catch (error) { await client.query('ROLLBACK'); throw error; }
Rollback(o, error) ==
    /\ pc' = [pc EXCEPT ![o] = "ABORTED"]
    /\ err' = [err EXCEPT ![o] = error]
    /\ written' = [written EXCEPT ![o] = {}]
    /\ reads' = [reads EXCEPT ![o] = {}]
    /\ snapshot' = [snapshot EXCEPT ![o] = {}]
    /\ rowLocks' = [rowLocks EXCEPT ![o] = {}]
    /\ UNCHANGED <<ledger, req, res, commitSeq>>

\* getPool().connect(); BEGIN ISOLATION LEVEL SERIALIZABLE. The caller's
\* parameters, one of `menu`, are fixed here; transactions begin in the order
\* of their ids.
Begin(o, menu) ==
    /\ pc[o] = "idle"
    /\ \A t \in OpIds : t < o => pc[t] # "idle"
    /\ \E r \in menu : req' = [req EXCEPT ![o] = r]
    /\ pc' = [pc EXCEPT ![o] = "STARTED"]
    /\ calledAt' = [calledAt EXCEPT ![o] = Cardinality({t \in OpIds : Committed(t)})]
    /\ UNCHANGED <<ledger, written, reads, snapshot, rowLocks, err, res, commitSeq, nextId>>

CommitKeepingLocks(o, result) ==
    IF SerializationFailure(reads, written, o)
    THEN Rollback(o, PostgresError("40001")) /\ UNCHANGED nextId
    ELSE /\ ledger' = ledger \cup written[o]
         /\ pc' = [pc EXCEPT ![o] = "COMMITTED"]
         /\ res' = [res EXCEPT ![o] = result]
         /\ commitSeq' = [commitSeq EXCEPT ![o] = 1 + Cardinality({t \in OpIds : Committed(t)})]
         /\ UNCHANGED <<written, reads, snapshot, rowLocks, req, err, nextId>>

CommitOverwriting(o, result) ==
    IF SerializationFailure(reads, written, o)
    THEN Rollback(o, PostgresError("40001")) /\ UNCHANGED nextId
    ELSE /\ ledger' = {e \in ledger : \A n \in written[o] :
                            e.wallet_id # n.wallet_id \/ e.asset_type_id # n.asset_type_id}
                       \cup written[o]
         /\ pc' = [pc EXCEPT ![o] = "COMMITTED"]
         /\ res' = [res EXCEPT ![o] = result]
         /\ rowLocks' = [rowLocks EXCEPT ![o] = {}]
         /\ commitSeq' = [commitSeq EXCEPT ![o] = 1 + Cardinality({t \in OpIds : Committed(t)})]
         /\ UNCHANGED <<written, reads, snapshot, req, err, nextId>>

\* await client.query('COMMIT'); return result;
Commit(o, result) ==
    IF SerializationFailure(reads, written, o)
    THEN Rollback(o, PostgresError("40001")) /\ UNCHANGED nextId
    ELSE /\ ledger' = ledger \cup written[o]
         /\ pc' = [pc EXCEPT ![o] = "COMMITTED"]
         /\ res' = [res EXCEPT ![o] = result]
         /\ rowLocks' = [rowLocks EXCEPT ![o] = {}]
         /\ commitSeq' = [commitSeq EXCEPT ![o] = 1 + Cardinality({t \in OpIds : Committed(t)})]
         /\ UNCHANGED <<written, reads, snapshot, req, err, nextId>>

\* ------------------------------------------------------------------ repository
Min(S) == CHOOSE x \in S : \A y \in S : x <= y

Range(sq) == {sq[i] : i \in DOMAIN sq}

\* const sortedIds = [...walletIds].sort((a, b) => a - b);
sortedIds(walletIds) == SortSeq(walletIds, LAMBDA a, b : a < b)

\* WHERE id = ANY($1::int[]) AND is_active = TRUE, over the wallets rows of o's
\* snapshot.
ActiveRows(o, ids) == {w \in Range(ids) : AdminXid(w) \notin snapshot[o]}

NextRowInCallerOrder(o, walletIds) ==
    LET rows == ActiveRows(o, walletIds) \ rowLocks[o]
        first == Min({i \in DOMAIN walletIds : walletIds[i] \in rows})
    IN  walletIds[first]

\* ORDER BY id ASC: the next wallets row the locking SELECT reaches.
NextRow(o, walletIds) == Min(ActiveRows(o, sortedIds(walletIds)) \ rowLocks[o])

RowLockedNever(o, w) == FALSE

\* FOR UPDATE NOWAIT: the row is locked by another transaction.
RowLocked(o, w) == \E t \in OpIds \ {o} : w \in rowLocks[t]

lockWalletsInOrderWaiting(o, walletIds, lockError) ==
    LET w == NextRow(o, walletIds) IN
    /\ ActiveRows(o, walletIds) \ rowLocks[o] # {}
    /\ ~RowLocked(o, w)
    /\ rowLocks' = [rowLocks EXCEPT ![o] = @ \cup {w}]
    /\ pc' = [pc EXCEPT ![o] =
                IF ActiveRows(o, walletIds) \ rowLocks[o] = {w} THEN "LOCKED" ELSE @]
    /\ UNCHANGED <<ledger, written, reads, snapshot, req, err, res, commitSeq, nextId>>

\* One row of lockWalletsInOrder(walletIds, client); lockError is what the
\* caller throws when the query fails. The query returns, and locks, the rows
\* that are active in the transaction's snapshot, and none for a wallet that is
\* not; the callers do not look at the rows returned. A row that was updated
\* after the snapshot cannot be locked (could not serialize access due to
\* concurrent update).
lockWalletsInOrder(o, walletIds, lockError) ==
    LET rows == ActiveRows(o, walletIds) \ rowLocks[o] IN
    IF rows = {}
    THEN /\ pc' = [pc EXCEPT ![o] = "LOCKED"]
         /\ UNCHANGED <<ledger, written, reads, snapshot, rowLocks, req, err, res, commitSeq,
                        nextId>>
    ELSE LET w == NextRow(o, walletIds) IN
         IF RowLocked(o, w)
         THEN Rollback(o, lockError) /\ UNCHANGED nextId
         ELSE IF ~is_active[w]
         THEN /\ Rollback(o, IF lockError = ConcurrencyError THEN lockError
                             ELSE PostgresError("40001"))
              /\ UNCHANGED nextId
         ELSE /\ rowLocks' = [rowLocks EXCEPT ![o] = @ \cup {w}]
              /\ pc' = [pc EXCEPT ![o] = IF rows = {w} THEN "LOCKED" ELSE @]
              /\ UNCHANGED <<ledger, written, reads, snapshot, req, err, res, commitSeq, nextId>>

\* CONSTRAINT unique_reference_entry UNIQUE (reference_id, entry_type)
UniqueConflict(row, rows) ==
    \E e \in rows : e.reference_id = row.reference_id /\ e.entry_type = row.entry_type

NewRowOnSource(o, entryType, walletId, referenceId) ==
    [id |-> nextId, transaction_id |-> uuidv4(o), wallet_id |-> req[o].sourceWalletId,
     asset_type_id |-> req[o].assetTypeId, entry_type |-> entryType,
     amount |-> req[o].amount, reference_id |-> referenceId,
     created_at |-> o, xmin |-> o]

NewRowAsCredit(o, entryType, walletId, referenceId) ==
    [id |-> nextId, transaction_id |-> uuidv4(o), wallet_id |-> walletId,
     asset_type_id |-> req[o].assetTypeId, entry_type |-> "CREDIT",
     amount |-> req[o].amount, reference_id |-> referenceId,
     created_at |-> o, xmin |-> o]

\* The row INSERT INTO ledger_entries ... RETURNING yields: id from the sequence,
\* created_at DEFAULT NOW(), the start time of the transaction.
NewRow(o, entryType, walletId, referenceId) ==
    [id |-> nextId, transaction_id |-> uuidv4(o), wallet_id |-> walletId,
     asset_type_id |-> req[o].assetTypeId, entry_type |-> entryType,
     amount |-> req[o].amount, reference_id |-> referenceId,
     created_at |-> o, xmin |-> o]

amount_check_not_negative(amount) == amount >= 0

\* amount BIGINT NOT NULL CHECK (amount > 0)
amount_check(amount) == amount > 0

\* JSON.stringify(params.metadata || {}): a code unit below U+0020 in a string
\* is written as an escape, any other as itself.
JSON_stringify(md) ==
    [v \in DOMAIN md |->
        [i \in DOMAIN md[v] |-> [escape |-> md[v][i] < 32, unit |-> md[v][i]]]]

\* The input conversion of the JSONB column metadata: the text is refused
\* (22P05) if a string holds the escape of U+0000, which jsonb cannot store.
jsonb_in(text) ==
    \A v \in DOMAIN text : \A i \in DOMAIN text[v] : ~(text[v][i].escape /\ text[v][i].unit = 0)

\* insertLedgerEntry(params, client), followed by the read the caller makes
\* before its next write, which leaves its SIREAD locks as one of rds; `next`
\* is the state the operation is in afterwards.
insertLedgerEntryWith(o, row, rds, next, md) ==
    IF ~jsonb_in(JSON_stringify(md))
    THEN Rollback(o, PostgresError("22P05")) /\ UNCHANGED nextId
    ELSE /\ ~ \E t \in OpIds \ {o} : InFlight(t) /\ UniqueConflict(row, written[t])
         /\ nextId' = nextId + 1
         /\ \E rd \in rds :
            LET wr == [written EXCEPT ![o] = @ \cup {row}] IN
            IF ~amount_check(row.amount)
            THEN Rollback(o, PostgresError("23514"))
            ELSE IF SerializationFailure(rd, wr, o)
            THEN Rollback(o, PostgresError("40001"))
            ELSE IF UniqueConflict(row, ledger \cup written[o])
            THEN Rollback(o, PostgresError("23505"))
            ELSE /\ written' = wr
                 /\ reads' = rd
                 /\ pc' = [pc EXCEPT ![o] = next]
                 /\ UNCHANGED <<ledger, snapshot, rowLocks, req, err, res, commitSeq>>

insertLedgerEntry(o, row, rds, next) == insertLedgerEntryWith(o, row, rds, next, metadata[o])

\* ------------------------------------------------------------------ ledger service
\* 1. Check idempotency: the first query of the transaction, which takes its
\* snapshot.
CheckIdempotency(o) ==
    LET existing == findLedgerEntryByReferenceId(ledger, req[o].referenceId) IN
    IF existing # {}
    THEN /\ \E existingEntry \in existing :
              Rollback(o, DuplicateTransactionError(req[o].referenceId,
                                                    existingEntry.transaction_id))
         /\ UNCHANGED nextId
    ELSE /\ snapshot' = [snapshot EXCEPT ![o] =
                {SeedXid} \cup {t \in OpIds : Committed(t)}
                          \cup {AdminXid(w) : w \in {w \in Wallets : ~is_active[w]}}]
         /\ reads' \in SIReadLock(o, ReferencePredicate(req[o].referenceId))
         /\ pc' = [pc EXCEPT ![o] = "IDEMPOTENT_CHECKED"]
         /\ UNCHANGED <<ledger, written, rowLocks, req, err, res, commitSeq, nextId>>

VerifyBalanceFromView(o) ==
    LET walletId == req[o].sourceWalletId
        balance == wallet_balances[<<walletId, req[o].assetTypeId>>]
    IN  /\ UNCHANGED nextId
        /\ \E rd \in SIReadLock(o, BalancePredicate(walletId, req[o].assetTypeId)) :
           IF SerializationFailure(rd, written, o)
           THEN Rollback(o, PostgresError("40001"))
           ELSE IF balance < req[o].amount
           THEN Rollback(o, InsufficientFundsError(req[o].amount, balance))
           ELSE /\ reads' = rd
                /\ pc' = [pc EXCEPT ![o] = "BALANCE_VERIFIED"]
                /\ UNCHANGED <<ledger, written, snapshot, rowLocks, req, err, res, commitSeq>>

\* Calculate the balance and validate sufficient funds.
VerifyBalance(o) ==
    LET walletId == req[o].sourceWalletId
        balance == calculateBalance(Visible(o), walletId, req[o].assetTypeId)
    IN  /\ UNCHANGED nextId
        /\ \E rd \in SIReadLock(o, BalancePredicate(walletId, req[o].assetTypeId)) :
           IF SerializationFailure(rd, written, o)
           THEN Rollback(o, PostgresError("40001"))
           ELSE IF balance < req[o].amount
           THEN Rollback(o, InsufficientFundsError(req[o].amount, balance))
           ELSE /\ reads' = rd
                /\ pc' = [pc EXCEPT ![o] = "BALANCE_VERIFIED"]
                /\ UNCHANGED <<ledger, written, snapshot, rowLocks, req, err, res, commitSeq>>

NewBalanceRead(o) ==
    SIReadLock(o, BalancePredicate(req[o].targetWalletId, req[o].assetTypeId))

ResultOfSource(o) ==
    [transactionId |-> uuidv4(o),
     newBalance |-> calculateBalance(Visible(o), req[o].sourceWalletId, req[o].assetTypeId)]

Result(o) ==
    [transactionId |-> uuidv4(o),
     newBalance |-> calculateBalance(Visible(o), req[o].targetWalletId, req[o].assetTypeId)]

createTransaction(o) ==
    /\ req[o].kind = "transfer"
    /\ \/ pc[o] = "STARTED" /\ CheckIdempotency(o)
       \/ /\ pc[o] = "IDEMPOTENT_CHECKED"
          /\ lockWalletsInOrder(o, <<req[o].sourceWalletId, req[o].targetWalletId>>,
                                ConcurrencyError)
       \/ pc[o] = "LOCKED" /\ VerifyBalance(o)
       \/ /\ pc[o] = "BALANCE_VERIFIED"
          /\ insertLedgerEntry(o, NewRow(o, "DEBIT", req[o].sourceWalletId, req[o].referenceId),
                               {reads}, "DEBIT_WRITTEN")
       \/ /\ pc[o] = "DEBIT_WRITTEN"
          /\ insertLedgerEntry(o, NewRow(o, "CREDIT", req[o].targetWalletId,
                                         req[o].referenceId \o "_credit"),
                               NewBalanceRead(o), "ENTRIES_WRITTEN")
       \/ pc[o] = "ENTRIES_WRITTEN" /\ Commit(o, Result(o))

createCreditOnlyTransactionVerifying(o) ==
    /\ req[o].kind = "creditOnly"
    /\ \/ pc[o] = "STARTED" /\ CheckIdempotency(o)
       \/ /\ pc[o] = "IDEMPOTENT_CHECKED"
          /\ lockWalletsInOrder(o, <<req[o].targetWalletId>>, PostgresError("55P03"))
       \/ pc[o] = "LOCKED" /\ VerifyBalance(o)
       \/ /\ pc[o] = "BALANCE_VERIFIED"
          /\ insertLedgerEntry(o, NewRow(o, "CREDIT", req[o].targetWalletId, req[o].referenceId),
                               NewBalanceRead(o), "ENTRIES_WRITTEN")
       \/ pc[o] = "ENTRIES_WRITTEN" /\ Commit(o, Result(o))

createCreditOnlyTransaction(o) ==
    /\ req[o].kind = "creditOnly"
    /\ \/ pc[o] = "STARTED" /\ CheckIdempotency(o)
       \/ /\ pc[o] = "IDEMPOTENT_CHECKED"
          /\ lockWalletsInOrder(o, <<req[o].targetWalletId>>, PostgresError("55P03"))
       \/ /\ pc[o] = "LOCKED"
          /\ insertLedgerEntry(o, NewRow(o, "CREDIT", req[o].targetWalletId, req[o].referenceId),
                               NewBalanceRead(o), "ENTRIES_WRITTEN")
       \/ pc[o] = "ENTRIES_WRITTEN" /\ Commit(o, Result(o))

createDebitOnlyTransaction(o) ==
    /\ req[o].kind = "debitOnly"
    /\ \/ pc[o] = "STARTED" /\ CheckIdempotency(o)
       \/ /\ pc[o] = "IDEMPOTENT_CHECKED"
          /\ lockWalletsInOrder(o, <<req[o].targetWalletId>>, PostgresError("55P03"))
       \/ pc[o] = "LOCKED" /\ VerifyBalance(o)
       \/ /\ pc[o] = "BALANCE_VERIFIED"
          /\ insertLedgerEntry(o, NewRow(o, "DEBIT", req[o].targetWalletId, req[o].referenceId),
                               NewBalanceRead(o), "ENTRIES_WRITTEN")
       \/ pc[o] = "ENTRIES_WRITTEN" /\ Commit(o, Result(o))

\* A query of the operation fails for a reason of the store or the connection
\* (or the operation is abandoned): the error reaches withTransaction's catch.
\* createTransaction rethrows whatever its locking query throws as
\* ConcurrencyError.
QueryError(o) ==
    /\ InFlight(o)
    /\ Rollback(o, IF req[o].kind = "transfer" /\ pc[o] = "IDEMPOTENT_CHECKED"
                   THEN ConcurrencyError ELSE PostgresError("08006"))
    /\ UNCHANGED nextId

Step(o) ==
    /\ \/ createTransaction(o)
       \/ createCreditOnlyTransaction(o)
       \/ createDebitOnlyTransaction(o)
       \/ QueryError(o)
    /\ UNCHANGED <<calledAt, apiVars>>

\* The parameters of call o: the first call's reference key is "a" and a later
\* call brings any key; transfers and debits move the seeded asset, credits
\* either asset.
AnyRequests(o) ==
    {r \in Requests : /\ r.referenceId \in (IF o = 1 THEN {"a"} ELSE CallerKeys)
                      /\ (r.kind # "creditOnly" => r.assetTypeId \in SeededAssets)}

\* NumOps concurrent calls with parameters of AnyRequests.
Next ==
    \E o \in OpIds :
        \/ o <= NumOps /\ Begin(o, AnyRequests(o)) /\ UNCHANGED apiVars
        \/ Step(o)

Spec == Init /\ [][Next]_vars

\* NumOps concurrent calls with parameters of RetryRequests, then NumRetries
\* calls in which a client re-issues, with the same parameters, an earlier call
\* that has returned.
RetryRequests ==
    {r \in Requests : r.assetTypeId = 1 /\ r.amount = 1 /\ r.referenceId \in {"a", "a_credit"}}

Returned(o) == {req[t] : t \in {t \in OpIds : t < o /\ pc[t] \in {"COMMITTED", "ABORTED"}}}

NextRetry ==
    \E o \in OpIds :
        \/ o <= NumOps /\ Begin(o, RetryRequests) /\ UNCHANGED apiVars
        \/ o > NumOps /\ Begin(o, Returned(o)) /\ UNCHANGED apiVars
        \/ Step(o)

SpecRetry == Init /\ [][NextRetry]_vars

\* NumOps concurrent transfers between pairwise disjoint pairs of wallets, each
\* of an amount its source holds and with a reference key of its own; no query
\* fails for a reason of the store.
DisjointRequests(o) ==
    {r \in [kind : {"transfer"}, sourceWalletId : {2 * o - 1, 2 * o},
            targetWalletId : {2 * o - 1, 2 * o}, assetTypeId : SeededAssets,
            amount : 1..SeedAmount, referenceId : {"k" \o ToString(o)}] :
        r.sourceWalletId # r.targetWalletId}

NextDisjoint ==
    \E o \in 1..NumOps :
        \/ Begin(o, DisjointRequests(o)) /\ UNCHANGED apiVars
        \/ createTransaction(o) /\ UNCHANGED <<calledAt, apiVars>>

SpecDisjoint == Init /\ [][NextDisjoint]_vars

\* ------------------------------------------------------------------ HTTP API
\* JSON numbers n/d a request body may carry as its amount.
JsonNumbers == [n : (0 - 1)..MaxAmount, d : {1, 2}]

ApiRequests ==
    [endpoint : {"topup", "bonus", "spend"}, user_id : {UserWallet}, asset_code : SeededAssets,
     amount : JsonNumbers, reference_id : {"a", "b"}]

\* amount: z.number().int().positive()
validateBodyPositive(body) == body.amount.n > 0

\* schema.parse(req.body): amount: z.number().int().positive(), for the JSON
\* number n/d.
validateBody(body) == body.amount.n % body.amount.d = 0 /\ body.amount.n > 0

\* if (amount <= 0) in topup, bonus and spend.
AmountNotPositive(body) == body.amount.n <= 0

\* The parameters topup, bonus and spend pass to the ledger service.
ServiceParams(body) ==
    [kind |-> IF body.endpoint = "bonus" THEN "creditOnly" ELSE "transfer",
     sourceWalletId |-> IF body.endpoint = "topup" THEN TreasuryWallet ELSE body.user_id,
     targetWalletId |-> IF body.endpoint = "spend" THEN RevenueWallet ELSE body.user_id,
     assetTypeId |-> body.asset_code,
     amount |-> body.amount.n \div body.amount.d,
     referenceId |-> body.reference_id]

\* The first call's reference key is "a"; a later call repeats it or brings "b".
\* router.post(..., validateBody(Schema), checkIdempotency, handle...): a body
\* that fails validation is answered by errorHandler; otherwise the handler
\* calls topup, bonus or spend, which rejects amount <= 0 and calls the ledger
\* service. The lookup of the checkIdempotency middleware is the lookup the
\* ledger service repeats as its first query.
HandleRequest(o) ==
    \E body \in {b \in ApiRequests : o = 1 => b.reference_id = "a"} :
        /\ api' = [api EXCEPT ![o] = body]
        /\ UNCHANGED <<wallet_balances, response, history, is_active, metadata, details, client>>
        /\ IF validateBody(body) /\ ~AmountNotPositive(body)
           THEN Begin(o, {ServiceParams(body)})
           ELSE /\ pc[o] = "idle"
                /\ \A t \in OpIds : t < o => pc[t] # "idle"
                /\ pc' = [pc EXCEPT ![o] = "ABORTED"]
                /\ err' = [err EXCEPT ![o] = ValidationError]
                /\ UNCHANGED <<ledger, written, reads, snapshot, rowLocks, req, res,
                               commitSeq, calledAt, nextId>>

\* SELECT ... FROM wallet_balances WHERE user_id = $1 AND asset_code = $2
getBalancesFromView(userId, assetCode) == wallet_balances[<<userId, assetCode>>]

\* getBalance(userId, assetCode): the balance the materialized view holds.
getBalance(userId, assetCode) == getBalancesFromView(userId, assetCode)

\* The response to a committed call: topup and bonus report result.newBalance,
\* spend reads the user's balance from the materialized view.
Respond(o) ==
    /\ Committed(o) /\ api[o] # NoApiRequest /\ response[o] = NoInt
    /\ response' = [response EXCEPT ![o] =
            IF api[o].endpoint = "spend"
            THEN getBalancesFromView(api[o].user_id, api[o].asset_code)
            ELSE res[o].newBalance]
    /\ UNCHANGED <<ledger, written, reads, snapshot, rowLocks, pc, req, err, res, commitSeq,
                   calledAt, wallet_balances, api, history, is_active, metadata, details, client, nextId>>

\* REFRESH MATERIALIZED VIEW CONCURRENTLY wallet_balances. No request handler
\* calls refreshBalancesView; it runs when something outside the service does.
WalletBalancesQueryPerWallet(rows, active) ==
    [p \in Wallets \X Assets |->
        IF active[p[1]] THEN calculateBalanceOfWallet(rows, p[1], p[2]) ELSE NoInt]

\* The rows the view's query yields: one for each pair of an active wallet and
\* an asset type, with COALESCE(SUM(...), 0) over the pair's entries; a
\* deactivated wallet has no row.
WalletBalancesQuery(rows, active) ==
    [p \in Wallets \X Assets |->
        IF active[p[1]] THEN calculateBalance(rows, p[1], p[2]) ELSE NoInt]

refreshBalancesView ==
    /\ wallet_balances' = WalletBalancesQuery(ledger, is_active)
    /\ wallet_balances' # wallet_balances
    /\ UNCHANGED <<ledger, written, reads, snapshot, rowLocks, pc, req, err, res, commitSeq,
                   calledAt, api, response, history, is_active, metadata, details, client, nextId>>

ApiStep(o) ==
    \/ (createTransaction(o) \/ createCreditOnlyTransaction(o) \/ QueryError(o))
          /\ UNCHANGED <<calledAt, apiVars>>
    \/ Respond(o)

NextApi ==
    \/ \E o \in 1..NumOps : HandleRequest(o)
    \/ \E o \in 1..NumOps : ApiStep(o)
    \/ refreshBalancesView

SpecApi == Init /\ [][NextApi]_vars

\* The event loop runs every handler that can take a step; nothing schedules
\* refreshBalancesView.
SpecApiFair == SpecApi /\ WF_vars(\E o \in 1..NumOps : ApiStep(o))

\* Two users, each calling topup or spend for one unit of asset 1 with a
\* reference key of their own: the first user's wallet id is below those of the
\* system wallets, the second's above.
OtherUserWallet == 4

ContentionBodies(o) ==
    [endpoint : {"topup", "spend"}, user_id : {IF o = 1 THEN UserWallet ELSE OtherUserWallet},
     asset_code : SeededAssets, amount : {[n |-> 1, d |-> 1]},
     reference_id : {IF o = 1 THEN "a" ELSE IF o = 2 THEN "b" ELSE "c"}]

NextContention ==
    \/ \E o \in 1..NumOps : \E body \in ContentionBodies(o) :
          /\ Begin(o, {ServiceParams(body)})
          /\ api' = [api EXCEPT ![o] = body]
          /\ UNCHANGED <<wallet_balances, response, history, is_active, metadata, details, client>>
    \/ \E o \in 1..NumOps : createTransaction(o) /\ UNCHANGED <<calledAt, apiVars>>

SpecContention == Init /\ [][NextContention]_vars

\* ------------------------------------------------------------------ history
MaxLimit == 2
MaxOffset == 1

OrderedById(e, f) == e.id < f.id

\* ORDER BY created_at ASC, id ASC: e sorts before f.
OrderedBefore(e, f) ==
    e.created_at < f.created_at \/ (e.created_at = f.created_at /\ e.id < f.id)

\* `rows` as the sequence ORDER BY created_at ASC, id ASC yields.
RECURSIVE OrderByCreatedAtId(_)
OrderByCreatedAtId(rows) ==
    IF rows = {} THEN <<>>
    ELSE LET last == CHOOSE e \in rows : \A f \in rows \ {e} : OrderedBefore(f, e)
         IN  Append(OrderByCreatedAtId(rows \ {last}), last)

Signed(e) == IF e.entry_type = "CREDIT" THEN e.amount ELSE 0 - e.amount

\* SUM(CASE ...) OVER (ORDER BY le.created_at ASC, le.id ASC) AS balance_after:
\* each row of the ordered sequence with the sum of the window up to it.
RECURSIVE balance_after(_)
balance_after(sorted) ==
    IF sorted = <<>> THEN <<>>
    ELSE LET n == Len(sorted)
             before == balance_after(SubSeq(sorted, 1, n - 1))
             sum == (IF n = 1 THEN 0 ELSE before[n - 1].balance_after) + Signed(sorted[n])
         IN  Append(before,
                    [id |-> sorted[n].id, transaction_id |-> sorted[n].transaction_id,
                     reference_id |-> sorted[n].reference_id,
                     entry_type |-> sorted[n].entry_type, amount |-> sorted[n].amount,
                     created_at |-> sorted[n].created_at, balance_after |-> sum])

Ascending(sq) == sq

\* ORDER BY created_at DESC, id DESC of the rows of transaction_data.
Descending(sq) == [i \in 1..Len(sq) |-> sq[Len(sq) + 1 - i]]

\* LIMIT count OFFSET start
LimitOffset(sq, count, start) ==
    SubSeq(sq, start + 1, IF start + count < Len(sq) THEN start + count ELSE Len(sq))

transaction_data(rows, walletId, assetTypeId) ==
    balance_after(OrderByCreatedAtId(
        {e \in rows : e.wallet_id = walletId /\ e.asset_type_id = assetTypeId}))

hasMoreAtLeast(result, limit) == Len(result) >= limit

\* const hasMore = result.length > limit;
hasMore(result, limit) == Len(result) > limit

\* getTransactionHistoryWithBalance(walletId, assetTypeId, limit, offset) over
\* the committed rows: the query is sent with limit + 1.
getTransactionHistoryWithBalance(rows, walletId, assetTypeId, limit, offset) ==
    LET result == LimitOffset(Descending(transaction_data(rows, walletId, assetTypeId)),
                              limit + 1, offset)
    IN  [walletId |-> walletId, assetTypeId |-> assetTypeId, limit |-> limit,
         offset |-> offset,
         transactions |-> IF hasMore(result, limit) THEN SubSeq(result, 1, limit) ELSE result,
         hasMore |-> hasMore(result, limit)]

\* GET /wallets/:user_id/transactions?asset_code=&limit=&offset=: one statement
\* outside any transaction, which reads the committed rows.
ReadUncommitted == ledger \cup UNION {written[o] : o \in {t \in OpIds : InFlight(t)}}

\* The rows a plain SELECT sees: the committed ones.
ReadCommitted == ledger

\* getTransactionHistory(userId, assetCode, limit, offset)
getTransactionHistoryOf(userId, assetCode, limit, offset) ==
    /\ history' = getTransactionHistoryWithBalance(ReadCommitted, userId, assetCode, limit, offset)
    /\ UNCHANGED <<ledger, written, reads, snapshot, rowLocks, pc, req, err, res, commitSeq,
                   calledAt, wallet_balances, api, response, is_active, metadata, details, client, nextId>>

getTransactionHistory ==
    \E w \in CallWallets, a \in SeededAssets, limit \in 1..MaxLimit, offset \in 0..MaxOffset :
        getTransactionHistoryOf(w, a, limit, offset)

\* NumOps concurrent calls that move one unit of asset 1 to or from the user's
\* wallet, each with a reference key of its own, and history queries between
\* their steps; no query fails for a reason of the store.
HistoryRequests(o) ==
    {r \in Requests : /\ r.assetTypeId = 1 /\ r.amount = 1
                      /\ r.referenceId = (IF o = 1 THEN "a" ELSE "b")
                      /\ UserWallet \in {r.sourceWalletId, r.targetWalletId}}

WriteStep(o) ==
    /\ \/ createTransaction(o)
       \/ createCreditOnlyTransaction(o)
       \/ createDebitOnlyTransaction(o)
    /\ UNCHANGED <<calledAt, apiVars>>

NextHistory ==
    \/ \E o \in 1..NumOps : Begin(o, HistoryRequests(o)) /\ UNCHANGED apiVars
    \/ \E o \in 1..NumOps : WriteStep(o)
    \/ getTransactionHistory

SpecHistory == Init /\ [][NextHistory]_vars

\* The same calls with queries that fail for a reason of the store, history
\* queries and refreshes of the view between their steps.
NextStore ==
    \/ \E o \in 1..NumOps : Begin(o, HistoryRequests(o)) /\ UNCHANGED apiVars
    \/ \E o \in 1..NumOps : Step(o)
    \/ getTransactionHistory
    \/ refreshBalancesView

SpecStore == Init /\ [][NextStore]_vars

\* NumOps concurrent transfers of one unit of asset 1 between the wallets, with
\* history queries and refreshes of the view between their steps.
NextReads ==
    \/ \E o \in 1..NumOps :
          Begin(o, {r \in HistoryRequests(o) : r.kind = "transfer"}) /\ UNCHANGED apiVars
    \/ \E o \in 1..NumOps : createTransaction(o) /\ UNCHANGED <<calledAt, apiVars>>
    \/ getTransactionHistory
    \/ refreshBalancesView

SpecReads == Init /\ [][NextReads]_vars

\* NumOps concurrent transfers of one unit of asset 1 between the wallets, each
\* called with a metadata object.
NextMetadata ==
    \/ \E o \in 1..NumOps :
          /\ Begin(o, {r \in HistoryRequests(o) : r.kind = "transfer"})
          /\ \E md \in Metadata : metadata' = [metadata EXCEPT ![o] = md]
          /\ UNCHANGED <<wallet_balances, api, response, history, is_active, details, client>>
    \/ \E o \in 1..NumOps : createTransaction(o) /\ UNCHANGED <<calledAt, apiVars>>

SpecMetadata == Init /\ [][NextMetadata]_vars

\* The service functions called directly, past the body validation of the HTTP
\* layer, with an amount that may be zero or negative: NumOps concurrent calls
\* on asset 1, each with a reference key of its own.
DirectRequests(o) ==
    {r \in [kind : {"transfer", "creditOnly", "debitOnly"}, sourceWalletId : CallWallets,
            targetWalletId : CallWallets, assetTypeId : SeededAssets,
            amount : (0 - 1)..1, referenceId : {IF o = 1 THEN "a" ELSE "b"}] :
        r.kind = "transfer" \/ r.sourceWalletId = r.targetWalletId}

NextDirect ==
    \/ \E o \in 1..NumOps : Begin(o, DirectRequests(o)) /\ UNCHANGED apiVars
    \/ \E o \in 1..NumOps : WriteStep(o)

SpecDirect == Init /\ [][NextDirect]_vars

\* SELECT ... FROM ledger_entries le JOIN wallets w ... WHERE le.reference_id = $1
\* OR le.reference_id = $2, called with referenceId and referenceId + "_credit".
findTransactionDetailsByReferenceId(rows, referenceId) ==
    {e \in rows : e.reference_id = referenceId \/ e.reference_id = referenceId \o "_credit"}

\* wallets.user_id is NULL for the system wallets.
HasUserId(w) == w \notin {TreasuryWallet, RevenueWallet}

\* ORDER BY le.entry_type DESC puts the DEBIT rows first and leaves the order
\* of rows of the same type open: the rows that can come first.
FirstRows(entries) ==
    IF \E e \in entries : e.entry_type = "DEBIT"
    THEN {e \in entries : e.entry_type = "DEBIT"}
    ELSE entries

\* entries.find((e) => e.user_id !== null) || entries[0]
userEntry(entries) ==
    IF \E e \in entries : HasUserId(e.wallet_id)
    THEN FirstRows({e \in entries : HasUserId(e.wallet_id)})
    ELSE FirstRows(entries)

\* GET /transactions/:reference_id: one statement outside any transaction.
getTransactionDetails ==
    /\ \E referenceId \in CallerKeys :
          LET entries == findTransactionDetailsByReferenceId(ReadCommitted, referenceId) IN
          IF entries = {}
          THEN details' = [NoDetails EXCEPT !.reference_id = referenceId,
                                            !.code = "TRANSACTION_NOT_FOUND"]
          ELSE \E e \in userEntry(entries) :
                  details' = [reference_id |-> referenceId, code |-> "COMPLETED",
                              transaction_id |-> e.transaction_id,
                              ledger_entries |-> entries]
    /\ UNCHANGED <<ledger, written, reads, snapshot, rowLocks, pc, req, err, res, commitSeq,
                   calledAt, wallet_balances, api, response, history, is_active, metadata,
                   client, nextId>>

\* NumOps concurrent calls that move one unit of asset 1, with reference keys
\* of which one is another followed by "_credit", and detail queries between
\* their steps.
NextDetails ==
    \/ \E o \in 1..NumOps : Begin(o, RetryRequests) /\ UNCHANGED apiVars
    \/ \E o \in 1..NumOps : WriteStep(o)
    \/ getTransactionDetails

SpecDetails == Init /\ [][NextDetails]_vars

\* ------------------------------------------------------------------ scheduling
\* NumOps concurrent calls of RetryRequests, which share reference keys. The
\* event loop resumes every handler whose awaited query has returned, and the
\* database answers every query that waits for no other transaction: a step
\* of an operation that stays possible is taken. Nothing forces a query to fail.
NextWrites ==
    \E o \in 1..NumOps :
        \/ Begin(o, RetryRequests) /\ UNCHANGED apiVars
        \/ WriteStep(o)
        \/ QueryError(o) /\ UNCHANGED <<calledAt, apiVars>>

SpecWritesFair ==
    Init /\ [][NextWrites]_vars /\ \A o \in 1..NumOps : WF_vars(WriteStep(o))

\* ------------------------------------------------------------------ wallets
\* UPDATE wallets SET is_active = FALSE WHERE id = w, by an administrator: no
\* request handler writes the wallets table. The UPDATE waits for a FOR UPDATE
\* lock on the row to be released.
Deactivate(w) ==
    /\ is_active[w]
    /\ \A o \in OpIds : w \notin rowLocks[o]
    /\ is_active' = [is_active EXCEPT ![w] = FALSE]
    /\ UNCHANGED <<ledger, written, reads, snapshot, rowLocks, pc, req, err, res, commitSeq,
                   calledAt, wallet_balances, api, response, history, metadata, details, client, nextId>>

\* NumOps concurrent calls that move one unit of asset 1 while wallets are
\* deactivated and the view is refreshed.
NextWallets ==
    \/ \E o \in 1..NumOps : Begin(o, HistoryRequests(o)) /\ UNCHANGED apiVars
    \/ \E o \in 1..NumOps : WriteStep(o)
    \/ \E w \in CallWallets : Deactivate(w)
    \/ refreshBalancesView

SpecWallets == Init /\ [][NextWallets]_vars

\* ------------------------------------------------------------------ properties
EntriesOf(transactionId) == {e \in ledger : e.transaction_id = transactionId}
Balance(w, a) == calculateBalance(ledger, w, a)
Debiting(o) == req[o].kind \in {"transfer", "debitOnly"}

\* The balance operation o's sufficiency check reads: the source pair, over the
\* rows of o's snapshot.
CheckedBalance(o) ==
    calculateBalance({e \in ledger : e.xmin \in snapshot[o]},
                     req[o].sourceWalletId, req[o].assetTypeId)

\* C1: the committed entries carrying the transaction id of a transfer are
\* exactly one DEBIT on the source and one CREDIT on the target, of the
\* transfer's asset and amount, so that credits minus debits is zero per asset.
C1_ZeroSum ==
    \A o \in OpIds :
        req[o].kind = "transfer" =>
            LET es == EntriesOf(uuidv4(o)) IN
            /\ es # {} <=> Committed(o)
            /\ es # {} =>
                /\ Cardinality(es) = 2
                /\ \E d \in es, c \in es :
                    /\ d.entry_type = "DEBIT" /\ d.wallet_id = req[o].sourceWalletId
                    /\ c.entry_type = "CREDIT" /\ c.wallet_id = req[o].targetWalletId
                    /\ d.asset_type_id = req[o].assetTypeId
                    /\ c.asset_type_id = req[o].assetTypeId
                    /\ d.amount = req[o].amount /\ c.amount = req[o].amount
                /\ \A a \in Assets : SumSigned({e \in es : e.asset_type_id = a}) = 0

C1_Witness ==
    \E o \in OpIds :
        /\ req[o].kind = "transfer" /\ Committed(o)
        /\ req[o].sourceWalletId # req[o].targetWalletId
        /\ Cardinality(EntriesOf(uuidv4(o))) = 2

\* C2: no (wallet, asset) balance is ever negative, and a transfer or
\* debit-only operation commits only when the balance its sufficiency check
\* read equals the source pair's balance over everything committed before it.
C2_NonNegative == \A w \in Wallets, a \in Assets : Balance(w, a) >= 0

C2_FreshAtCommit ==
    \A o \in OpIds :
        (Debiting(o) /\ ~Committed(o) /\ pc'[o] = "COMMITTED") =>
            CheckedBalance(o) = Balance(req[o].sourceWalletId, req[o].assetTypeId)

C2_NoOverdraft == []C2_NonNegative /\ [][C2_FreshAtCommit]_vars

\* A debit has emptied a pair, and a concurrent debit of the same pair, whose
\* snapshot is older than that commit, passed its sufficiency check and was
\* cancelled.
C2_Witness ==
    \E o \in OpIds, t \in OpIds :
        /\ Committed(o) /\ Debiting(o) /\ Debiting(t)
        /\ req[o].sourceWalletId = req[t].sourceWalletId
        /\ req[o].assetTypeId = req[t].assetTypeId
        /\ req[o].sourceWalletId # req[o].targetWalletId
        /\ Balance(req[o].sourceWalletId, req[o].assetTypeId) = 0
        /\ pc[t] = "ABORTED" /\ err[t].code = "40001"

\* Errors of the store or the connection, which any query may raise.
StoreErrors == {"08006"}

\* t had committed when o was called.
CommittedBeforeCall(t, o) == Committed(t) /\ commitSeq[t] <= calledAt[o]

\* C3: a transfer or debit-only operation whose sufficiency check reads a
\* balance below the amount aborts with InsufficientFunds carrying the amount
\* as required and that balance as available, writes no entry and changes no
\* balance; no operation passes the check with a balance below its amount.
C3_Rejected ==
    \A o \in OpIds :
        err[o].code = "INSUFFICIENT_FUNDS" =>
            /\ Debiting(o) /\ pc[o] = "ABORTED"
            /\ err[o].required = req[o].amount
            /\ err[o].available < req[o].amount
            /\ written[o] = {}
            /\ {e \in ledger : e.xmin = o} = {}

C3_Passed ==
    \A o \in OpIds :
        (Debiting(o) /\ pc[o] \in {"BALANCE_VERIFIED", "DEBIT_WRITTEN", "ENTRIES_WRITTEN"})
            => CheckedBalance(o) >= req[o].amount

C3_Check ==
    \A o \in OpIds :
        (Debiting(o) /\ pc[o] = "LOCKED" /\ pc'[o] # "LOCKED"
            /\ CheckedBalance(o) < req[o].amount) =>
            /\ pc'[o] = "ABORTED"
            /\ ledger' = ledger
            /\ \A w \in Wallets, a \in Assets : Balance(w, a)' = Balance(w, a)
            /\ err'[o].code \notin (StoreErrors \cup {"40001"}) =>
                err'[o] = [NoError EXCEPT !.code = "INSUFFICIENT_FUNDS",
                                          !.required = req[o].amount,
                                          !.available = CheckedBalance(o)]

C4_Replay ==
    \A o \in OpIds, t \in OpIds :
        (/\ o # t /\ req[o] = req[t] /\ CommittedBeforeCall(t, o)
         /\ pc[o] \in {"COMMITTED", "ABORTED"}
         /\ err[o].code \notin StoreErrors) =>
            /\ pc[o] = "ABORTED"
            /\ err[o] = DuplicateTransactionError(req[o].referenceId, res[t].transactionId)
            /\ {e \in ledger : e.xmin = o} = {}

\* C5: a lookup that finds a committed entry for the caller's key rejects the
\* operation before any lock is taken and without a write, and every response
\* DUPLICATE_TRANSACTION carries the caller's key and the transaction id of a
\* committed entry with that key.
C5_Surfaces ==
    \A o \in OpIds :
        (pc[o] = "ABORTED" /\ errorHandler(err[o]).code = "DUPLICATE_TRANSACTION") =>
            /\ err[o].referenceId = req[o].referenceId
            /\ errorHandler(err[o]).existingTransactionId \in
                   {e.transaction_id : e \in findLedgerEntryByReferenceId(ledger, req[o].referenceId)}

C5_Lookup ==
    \A o \in OpIds :
        (/\ pc[o] = "STARTED" /\ pc'[o] # "STARTED"
         /\ findLedgerEntryByReferenceId(ledger, req[o].referenceId) # {}
         /\ err'[o].code \notin StoreErrors) =>
            /\ pc'[o] = "ABORTED"
            /\ err'[o].code = "DUPLICATE_TRANSACTION"
            /\ rowLocks[o] = {} /\ rowLocks'[o] = {}
            /\ ledger' = ledger

C5_DuplicateRejected == []C5_Surfaces /\ [][C5_Lookup]_vars

\* C6: at most one of the operations called with a given reference key commits,
\* and all committed entries with a given reference_id carry one transaction id.
C6_OneCommitPerKey ==
    \A o \in OpIds, t \in OpIds :
        (o # t /\ Committed(o) /\ Committed(t)) => req[o].referenceId # req[t].referenceId

C6_OneTransactionPerReference ==
    \A e \in ledger, f \in ledger :
        e.reference_id = f.reference_id => e.transaction_id = f.transaction_id

C6_SameKeyRace == C6_OneCommitPerKey /\ C6_OneTransactionPerReference

\* Transfers over the same two accounts in opposite caller-supplied order.
Opposite(o, t) ==
    /\ o # t
    /\ req[o].kind = "transfer" /\ req[t].kind = "transfer"
    /\ req[o].sourceWalletId # req[o].targetWalletId
    /\ req[o].sourceWalletId = req[t].targetWalletId
    /\ req[o].targetWalletId = req[t].sourceWalletId

HoldsAllLocks(o) == pc[o] \in {"LOCKED", "BALANCE_VERIFIED", "DEBIT_WRITTEN", "ENTRIES_WRITTEN"}

\* The error codes whose response invites the caller to retry.
RetryableCodes == {"CONCURRENCY_ERROR", "LOCK_NOT_AVAILABLE"}

\* C7: of two in-flight transfers over the same two accounts in opposite
\* order, one can always take its next step (neither waits for the other in a
\* cycle), at most one holds its locks and goes on to commit, and the one that
\* requests a lock while the other holds one returns a retryable error.
C7_NoDeadlock ==
    \A o \in OpIds, t \in OpIds :
        (Opposite(o, t) /\ InFlight(o) /\ InFlight(t)) =>
            /\ ENABLED createTransaction(o) \/ ENABLED createTransaction(t)
            /\ ~(HoldsAllLocks(o) /\ HoldsAllLocks(t))
            /\ rowLocks[o] \cap rowLocks[t] = {}

C7_Loser ==
    \A o \in OpIds, t \in OpIds :
        (/\ Opposite(o, t) /\ rowLocks[t] # {}
         /\ pc[o] = "IDEMPOTENT_CHECKED" /\ <<pc[o], rowLocks[o]>>' # <<pc[o], rowLocks[o]>>) =>
            /\ pc'[o] = "ABORTED"
            /\ errorHandler(err'[o]).code \in RetryableCodes
            /\ pc'[t] = pc[t]
            /\ ledger' = ledger

C7_OppositeTransfers == []C7_NoDeadlock /\ [][C7_Loser]_vars

\* One of two opposite transfers committed and the other was turned away at
\* the lock.
C7_Witness ==
    \E o \in OpIds, t \in OpIds :
        /\ Opposite(o, t)
        /\ Committed(t)
        /\ pc[o] = "ABORTED" /\ err[o] = ConcurrencyError
        /\ calledAt[o] = 0 /\ calledAt[t] = 0

\* The wallets rows operation o locks.
LockSet(o) ==
    IF req[o].kind = "transfer" THEN {req[o].sourceWalletId, req[o].targetWalletId}
    ELSE {req[o].targetWalletId}

\* C8: an operation whose next wallets row is locked by another operation
\* aborts at once with the response LOCK_NOT_AVAILABLE, whichever of the three
\* operations it is, and writes nothing.
C8_Contention ==
    \A o \in OpIds :
        (/\ pc[o] = "IDEMPOTENT_CHECKED" /\ RowLocked(o, Min(LockSet(o) \ rowLocks[o]))
         /\ <<pc[o], rowLocks[o]>>' # <<pc[o], rowLocks[o]>>
         /\ err'[o].code \notin StoreErrors) =>
            /\ pc'[o] = "ABORTED"
            /\ errorHandler(err'[o]).code = "LOCK_NOT_AVAILABLE"
            /\ ledger' = ledger
            /\ written'[o] = {}

C8_LockUnavailable == [][C8_Contention]_vars

\* C9: the committed entries are those of the seed and of committed operations
\* only, an aborted operation keeps no entry, a transfer's DEBIT is committed
\* only together with its CREDIT, and the step in which an operation aborts
\* changes no committed entry and no balance.
C9_OnlyCommitted ==
    /\ \A e \in ledger : e.xmin = SeedXid \/ Committed(e.xmin)
    /\ \A o \in OpIds : pc[o] = "ABORTED" => written[o] = {}
    /\ \A d \in ledger :
        (d.xmin # SeedXid /\ req[d.xmin].kind = "transfer" /\ d.entry_type = "DEBIT") =>
            \E c \in ledger : c.transaction_id = d.transaction_id /\ c.entry_type = "CREDIT"

C9_AbortStep ==
    \A o \in OpIds :
        (pc[o] # "ABORTED" /\ pc'[o] = "ABORTED") =>
            /\ ledger' = ledger
            /\ \A w \in Wallets, a \in Assets : Balance(w, a)' = Balance(w, a)

C9_Atomic == []C9_OnlyCommitted /\ [][C9_AbortStep]_vars

\* A transfer was aborted by its CREDIT insert, after its DEBIT entry had been
\* written, and another operation's entries are committed.
C9_Witness ==
    \E o \in OpIds :
        /\ req[o].kind = "transfer" /\ pc[o] = "ABORTED" /\ err[o].code = "23505"
        /\ \E e \in ledger : e.xmin # SeedXid
        /\ \A e \in ledger : e.xmin # o

RECURSIVE SumAmounts(_)
SumAmounts(rows) ==
    IF rows = {} THEN 0
    ELSE LET e == CHOOSE x \in rows : TRUE IN e.amount + SumAmounts(rows \ {e})

EntriesOfPair(w, a, entryType) ==
    {e \in ledger : e.wallet_id = w /\ e.asset_type_id = a /\ e.entry_type = entryType}

\* C10: for every (wallet, asset) pair calculateBalance over the committed
\* entries is the sum of the amounts of the pair's CREDIT entries minus the sum
\* of the amounts of its DEBIT entries, and 0 when the pair has no entry.
C10_BalanceLaw ==
    \A w \in Wallets, a \in Assets :
        /\ calculateBalance(ledger, w, a) =
               SumAmounts(EntriesOfPair(w, a, "CREDIT")) - SumAmounts(EntriesOfPair(w, a, "DEBIT"))
        /\ (EntriesOfPair(w, a, "CREDIT") \cup EntriesOfPair(w, a, "DEBIT") = {}) =>
               calculateBalance(ledger, w, a) = 0

\* A wallet has entries of both kinds in one asset and, in another asset,
\* entries that are no part of the first asset's balance.
C10_Witness ==
    \E w \in Wallets, a \in Assets, b \in Assets :
        /\ a # b
        /\ EntriesOfPair(w, a, "CREDIT") # {} /\ EntriesOfPair(w, a, "DEBIT") # {}
        /\ EntriesOfPair(w, b, "CREDIT") # {}
        /\ \E v \in Wallets : EntriesOfPair(v, b, "CREDIT") \cup EntriesOfPair(v, b, "DEBIT") = {}

\* The balance of (w, a) after the committed transfers among ops, executed one
\* after the other in any order, on the seeded ledger.
SequentialBalance(ops, w, a) ==
    calculateBalance(SeedEntries, w, a)
    + SumAmounts({[id |-> o, amount |-> req[o].amount] :
                     o \in {t \in ops : req[t].targetWalletId = w /\ req[t].assetTypeId = a}})
    - SumAmounts({[id |-> o, amount |-> req[o].amount] :
                     o \in {t \in ops : req[t].sourceWalletId = w /\ req[t].assetTypeId = a}})

C11_Conserved ==
    \A w \in Wallets, a \in Assets :
        Balance(w, a) = SequentialBalance({o \in OpIds : Committed(o)}, w, a)

C11_NoRetryableError ==
    \A o \in OpIds : pc[o] = "ABORTED" => errorHandler(err[o]).code \notin RetryableCodes

\* C11: concurrent transfers between pairwise disjoint pairs of wallets, with
\* sufficient funds and distinct keys, are never answered with a retryable
\* error, and the balances are those of the committed transfers executed in
\* sequence.
C11_DisjointTransfers == C11_NoRetryableError /\ C11_Conserved

\* The step in which operation o commits.
Commits(o) == pc[o] # "COMMITTED" /\ pc'[o] = "COMMITTED"

\* Every (wallet, asset) pair other than those of `pairs` keeps its balance.
OthersUnchanged(pairs) ==
    \A w \in Wallets, a \in Assets :
        <<w, a>> \notin pairs => Balance(w, a)' = Balance(w, a)

FreshTransactionId(o) ==
    /\ res'[o].transactionId \notin {e.transaction_id : e \in ledger}
    /\ \A t \in OpIds \ {o} : res'[o].transactionId # res[t].transactionId

\* What the claim says of the step in which transfer o commits.
TransferEffect(o) ==
    LET src == req[o].sourceWalletId
        tgt == req[o].targetWalletId
        a   == req[o].assetTypeId
    IN  /\ FreshTransactionId(o)
        /\ res'[o].newBalance = Balance(tgt, a) + req[o].amount
        /\ Balance(tgt, a)' = res'[o].newBalance
        /\ Balance(src, a)' = Balance(src, a) - req[o].amount
        /\ OthersUnchanged({<<src, a>>, <<tgt, a>>})

\* C12 as stated: every committing transfer returns a fresh transaction id and
\* the target's previous balance plus the amount, takes the amount from the
\* source's balance and changes no other balance.
C12_AnyTransfer ==
    [][\A o \in OpIds : (req[o].kind = "transfer" /\ Commits(o)) => TransferEffect(o)]_vars

\* C12, amended: the same for a transfer between two different wallets; a
\* transfer whose source and target are one wallet returns a fresh transaction
\* id and that wallet's unchanged balance, and changes no balance.
C12_Transfer ==
    [][\A o \in OpIds :
        (req[o].kind = "transfer" /\ Commits(o)) =>
            IF req[o].sourceWalletId # req[o].targetWalletId
            THEN TransferEffect(o)
            ELSE /\ FreshTransactionId(o)
                 /\ res'[o].newBalance = Balance(req[o].targetWalletId, req[o].assetTypeId)
                 /\ OthersUnchanged({})]_vars

\* A transfer of 1 between two wallets committed on a target balance of 1.
C12_Witness ==
    \E o \in OpIds :
        /\ req[o].kind = "transfer" /\ Committed(o)
        /\ req[o].sourceWalletId # req[o].targetWalletId
        /\ res[o].newBalance = SeedAmount + req[o].amount
        /\ Balance(req[o].targetWalletId, req[o].assetTypeId) = res[o].newBalance
        /\ Balance(req[o].sourceWalletId, req[o].assetTypeId) = 0

\* C13: the balance a committed spend reports is the user's real-time balance
\* before the spend minus the amount.
C13_SpendBalance ==
    \A o \in OpIds :
        (api[o].endpoint = "spend" /\ response[o] # NoInt) =>
            response[o] = CheckedBalance(o) - req[o].amount

\* The cached balance of every pair is its real-time balance.
CacheFresh == \A w \in Wallets, a \in Assets : getBalance(w, a) = Balance(w, a)

\* C14: once writes stop committing, the balance getBalance returns for every
\* pair eventually equals, and stays equal to, the pair's real-time balance.
C14_CacheRefreshed == <>[]CacheFresh

\* The committed entries of the pair a history response is about.
HistoryEntries(h) ==
    {e \in ledger : e.wallet_id = h.walletId /\ e.asset_type_id = h.assetTypeId}

\* e precedes f in (creation time, entry id) order.
Precedes(e, f) ==
    \/ e.created_at < f.created_at
    \/ e.created_at = f.created_at /\ e.id < f.id

\* The position of e, from 0, when the entries of `rows` are listed newest first.
Position(e, rows) == Cardinality({f \in rows : Precedes(e, f)})

C15_Page(h) ==
    LET rows == HistoryEntries(h) IN
    /\ Len(h.transactions) =
           Cardinality({e \in rows :
               Position(e, rows) \in h.offset..(h.offset + h.limit - 1)})
    /\ \A i \in 1..Len(h.transactions) :
           \E e \in rows : /\ e.id = h.transactions[i].id
                           /\ e.transaction_id = h.transactions[i].transaction_id
                           /\ e.amount = h.transactions[i].amount
                           /\ Position(e, rows) = h.offset + i - 1
    /\ h.hasMore <=> Cardinality({e \in rows : Position(e, rows) >= h.offset}) > h.limit

\* C15: a history query for a pair with a limit and an offset returns exactly the
\* entries at positions offset .. offset + limit - 1 of the pair's entries listed
\* newest first, and reports hasMore exactly when strictly more than limit
\* entries exist from position offset on.
C15_Pagination == [][history' # history => C15_Page(history')]_vars

\* A second page that is full and has entries after it.
C15_Witness ==
    /\ history.offset > 0
    /\ history.hasMore
    /\ Len(history.transactions) = history.limit
    /\ history.limit > 1

C16_RunningBalance(h) ==
    LET rows == HistoryEntries(h) IN
    /\ \A i \in 1..Len(h.transactions) :
           \E e \in rows :
               /\ e.id = h.transactions[i].id
               /\ h.transactions[i].balance_after =
                      SumSigned({f \in rows : f = e \/ Precedes(f, e)})
    /\ \A i, j \in 1..Len(h.transactions) :
           i < j => Precedes(h.transactions[j], h.transactions[i])

\* C16: in every history response each entry's running balance is the signed sum
\* of all entries of the pair that precede or equal it in (creation time, entry
\* id) order, whatever the limit and offset, and the entries are listed newest
\* first in that order.
C16_History == [][history' # history => C16_RunningBalance(history')]_vars

\* A page that starts after the newest entry and holds two entries of which the
\* one created earlier has the larger id, one of them a debit.
C16_Witness ==
    /\ history.offset > 0
    /\ Len(history.transactions) = 2
    /\ history.transactions[1].id < history.transactions[2].id
    /\ history.transactions[1].created_at > history.transactions[2].created_at
    /\ \E i \in 1..2 : history.transactions[i].entry_type = "DEBIT"

\* C17: a committed ledger entry stays in the ledger with every attribute
\* unchanged, and the set of committed entries only grows: no step of a write, a
\* balance read, a history query or a refresh of the view updates or deletes one.
C17_AppendOnly ==
    [][/\ \A e \in ledger : e \in ledger'
       /\ \A e \in ledger : \A f \in ledger' : f.id = e.id => f = e]_vars

\* Two writes on one pair have committed one after the other, the view was
\* refreshed after the first and a history query has read the pair.
C17_Witness ==
    /\ \E o, t \in OpIds :
          /\ commitSeq[o] = 1 /\ commitSeq[t] = 2
          /\ \E e \in written[o], f \in written[t] :
                e.wallet_id = f.wallet_id /\ e.asset_type_id = f.asset_type_id
    /\ wallet_balances # [p \in Wallets \X Assets |-> calculateBalance(SeedEntries, p[1], p[2])]
    /\ Len(history.transactions) > 1
    /\ SeedEntries \subseteq ledger /\ Cardinality(ledger) > Cardinality(SeedEntries) + 1

\* Operation o, of the given kind, has passed its idempotency lookup and holds
\* its lock.
Locked(o, kind) ==
    req[o].kind = kind /\ pc[o] \in {"LOCKED", "BALANCE_VERIFIED", "ENTRIES_WRITTEN"}

\* The errors with which the database cancels an operation that holds its lock:
\* a serialization failure, or a unique violation when a concurrent operation
\* committed an entry with the same reference key first.
CancelCodes == {"40001", "23505"}

\* What the claims say of the step in which a single-entry operation o commits.
SingleEntryEffect(o, entryType, sign) ==
    LET w == req[o].targetWalletId
        a == req[o].assetTypeId
    IN  /\ \E e \in ledger' \ ledger :
              /\ ledger' = ledger \cup {e}
              /\ e.entry_type = entryType /\ e.wallet_id = w /\ e.asset_type_id = a
              /\ e.amount = req[o].amount /\ e.reference_id = req[o].referenceId
              /\ e.transaction_id = res'[o].transactionId
        /\ res'[o].newBalance = Balance(w, a) + sign * req[o].amount
        /\ Balance(w, a)' = res'[o].newBalance
        /\ OthersUnchanged({<<w, a>>})

C18_NoAbort ==
    \A o \in OpIds :
        (Locked(o, "creditOnly") /\ pc'[o] = "ABORTED") => err'[o].code \in StoreErrors

C18_Effect ==
    \A o \in OpIds :
        (req[o].kind = "creditOnly" /\ Commits(o)) => SingleEntryEffect(o, "CREDIT", 1)

\* C18 as stated: a credit-only operation that found its reference key unused
\* and holds its lock commits, whatever the balance: no step aborts it, unless
\* the store fails a query; the commit adds exactly one CREDIT entry and no
\* DEBIT entry and returns the previous balance plus the amount.
C18_AnyCreditOnly == [][C18_NoAbort /\ C18_Effect]_vars

C18_Cancelled ==
    \A o \in OpIds :
        (Locked(o, "creditOnly") /\ pc'[o] = "ABORTED") =>
            err'[o].code \in StoreErrors \cup CancelCodes

C18_NoSufficiencyCheck ==
    \A o \in OpIds :
        req[o].kind = "creditOnly" =>
            /\ err[o].code # "INSUFFICIENT_FUNDS"
            /\ pc[o] = "ENTRIES_WRITTEN" =>
                  \E e \in written[o] : written[o] = {e} /\ e.entry_type = "CREDIT"

\* C18, amended: a credit-only operation that found its reference key unused and
\* holds its lock is aborted only by the database cancelling it (serialization
\* failure, or unique violation after a concurrent operation committed the same
\* key) or by the store failing a query, never by a sufficiency check; when it
\* commits it adds exactly one CREDIT entry and no DEBIT entry and returns the
\* previous balance plus the amount.
C18_CreditOnly == []C18_NoSufficiencyCheck /\ [][C18_Cancelled /\ C18_Effect]_vars

\* A credit-only operation committed on a pair whose balance was zero.
C18_Witness ==
    \E o \in OpIds :
        /\ req[o].kind = "creditOnly" /\ Committed(o)
        /\ res[o].newBalance = req[o].amount
        /\ Balance(req[o].targetWalletId, req[o].assetTypeId) = req[o].amount
        /\ Cardinality({e \in ledger : e.xmin = o}) = 1

\* The step in which debit-only operation o, holding its lock, makes its
\* sufficiency check.
Checks(o) == req[o].kind = "debitOnly" /\ pc[o] = "LOCKED" /\ pc'[o] # "LOCKED"

InsufficientFundsRaised(o) ==
    /\ pc'[o] = "ABORTED"
    /\ err'[o].code \notin StoreErrors =>
          err'[o] = [NoError EXCEPT !.code = "INSUFFICIENT_FUNDS",
                                    !.required = req[o].amount,
                                    !.available = Balance(req[o].targetWalletId,
                                                          req[o].assetTypeId)]

C19_RealTimeCheck ==
    \A o \in OpIds :
        /\ Checks(o) =>
              IF Balance(req[o].targetWalletId, req[o].assetTypeId) >= req[o].amount
              THEN pc'[o] = "ABORTED" => err'[o].code \in StoreErrors
              ELSE InsufficientFundsRaised(o)
        /\ (Locked(o, "debitOnly") /\ pc[o] # "LOCKED" /\ pc'[o] = "ABORTED") =>
              err'[o].code \in StoreErrors

C19_Effect ==
    \A o \in OpIds :
        (req[o].kind = "debitOnly" /\ Commits(o)) =>
            /\ Balance(req[o].targetWalletId, req[o].assetTypeId) >= req[o].amount
            /\ SingleEntryEffect(o, "DEBIT", 0 - 1)

\* C19 as stated: a debit-only operation that found its reference key unused
\* and holds its lock commits if and only if the real-time balance of its pair
\* is at least the amount: with such a balance no step aborts it, unless the
\* store fails a query, and the commit adds exactly one DEBIT entry and returns
\* the previous balance minus the amount; with a smaller balance its check
\* aborts it with InsufficientFunds.
C19_AnyDebitOnly == [][C19_RealTimeCheck /\ C19_Effect]_vars

C19_SnapshotCheck ==
    \A o \in OpIds :
        /\ Checks(o) =>
              IF CheckedBalance(o) >= req[o].amount
              THEN pc'[o] = "ABORTED" => err'[o].code \in StoreErrors \cup CancelCodes
              ELSE /\ pc'[o] = "ABORTED"
                   /\ err'[o].code \notin StoreErrors \cup CancelCodes =>
                         err'[o] = [NoError EXCEPT !.code = "INSUFFICIENT_FUNDS",
                                                   !.required = req[o].amount,
                                                   !.available = CheckedBalance(o)]
        /\ (Locked(o, "debitOnly") /\ pc[o] # "LOCKED" /\ pc'[o] = "ABORTED") =>
              err'[o].code \in StoreErrors \cup CancelCodes

\* What holds of a debit-only operation that found its reference key unused and
\* holds its lock: it judges sufficiency on the balance of its snapshot, taken
\* by its idempotency lookup; with a smaller balance it aborts with
\* InsufficientFunds, otherwise it is aborted only by the database cancelling it
\* or by the store failing a query. When it commits, the real-time balance was at
\* least the amount, and it adds exactly one DEBIT entry and returns the
\* previous balance minus the amount.
C19_DebitOnly == [][C19_SnapshotCheck /\ C19_Effect]_vars

\* The JSON number x is a positive integer.
PositiveInteger(x) == \E k \in 1..MaxAmount : k * x.d = x.n

\* C20: a top-up, bonus or spend request whose amount is zero, negative or not
\* an integer fails with the validation error (status 400), never takes a lock,
\* never enters the ledger service and writes no entry.
C20_InvalidAmount ==
    \A o \in OpIds :
        (api[o] # NoApiRequest /\ ~PositiveInteger(api[o].amount)) =>
            /\ pc[o] = "ABORTED"
            /\ err[o].code = "VALIDATION_ERROR"
            /\ errorHandler(err[o]).status = 400
            /\ req[o] = NoRequest
            /\ rowLocks[o] = {} /\ snapshot[o] = {} /\ reads[o] = {}
            /\ written[o] = {}
            /\ {e \in ledger : e.xmin = o} = {}
            /\ response[o] = NoInt

\* A request with amount 1/2 and a request with an amount that is not positive
\* have both been refused, and the ledger is the seeded one.
C20_Witness ==
    \E o, t \in OpIds :
        /\ api[o] # NoApiRequest /\ api[o].amount.n = 1 /\ api[o].amount.d = 2
        /\ api[t] # NoApiRequest /\ api[t].amount.n <= 0
        /\ err[o] = ValidationError /\ err[t] = ValidationError
        /\ ledger = SeedEntries

\* Call r re-issues, with the same parameters, a call t that was answered with
\* a retryable error.
Retries(r, t) ==
    /\ r > NumOps /\ t < r /\ req[r] = req[t]
    /\ pc[t] = "ABORTED" /\ errorHandler(err[t]).code \in RetryableCodes

\* A call other than r that was made with r's reference key has committed.
KeyCommittedByOther(r) ==
    \E u \in OpIds \ {r} : Committed(u) /\ req[u].referenceId = req[r].referenceId

\* No other call is in flight, and none committed after r took its snapshot.
NoConflictInFlight(r) ==
    \A u \in OpIds \ {r} :
        /\ ~InFlight(u)
        /\ (Committed(u) /\ pc[r] # "STARTED") => u \in snapshot[r]

C21_NotDuplicate ==
    \A r \in OpIds, t \in OpIds :
        (Retries(r, t) /\ ~KeyCommittedByOther(r) /\ pc[r] = "ABORTED") =>
            errorHandler(err[r]).code # "DUPLICATE_TRANSACTION"

C21_RetryStep ==
    \A r \in OpIds, t \in OpIds :
        (/\ Retries(r, t) /\ ~KeyCommittedByOther(r) /\ NoConflictInFlight(r)
         /\ InFlight(r) /\ pc'[r] = "ABORTED") =>
            \/ err'[r].code \in StoreErrors \cup {"INSUFFICIENT_FUNDS"}
            \/ /\ req[r].kind = "transfer" /\ pc[r] = "IDEMPOTENT_CHECKED"
               /\ err'[r] = ConcurrencyError

C21_OneTransaction ==
    \A r \in OpIds, t \in OpIds :
        (Retries(r, t) /\ Committed(r)) =>
            /\ Cardinality({e.transaction_id : e \in {e \in ledger : e.xmin = r}}) = 1
            /\ \A u \in OpIds \ {r} : req[u] = req[r] => ~Committed(u)

\* C21: a call that re-issues, with the same reference key, a call aborted with
\* a retryable error (lock unavailable, serialization conflict) is not rejected
\* as a duplicate unless another call committed under that key; while no
\* conflicting call is in flight no step aborts it, unless funds are
\* insufficient or the store fails a query (a transfer reports a failed lock
\* query of any cause as ConcurrencyError); and when it commits, it commits one
\* transaction, the only one of that request.
C21_Retry == [](C21_NotDuplicate /\ C21_OneTransaction) /\ [][C21_RetryStep]_vars

\* The step in which operation o asks for its next lock can be taken.
LockStepEnabled(o) ==
    ENABLED (/\ \/ createTransaction(o)
                \/ createCreditOnlyTransaction(o)
                \/ createDebitOnlyTransaction(o)
             /\ UNCHANGED <<calledAt, apiVars>>)

C22_NeverWaitsForLock ==
    \A o \in OpIds : pc[o] = "IDEMPOTENT_CHECKED" => LockStepEnabled(o)

Terminal(o) == pc[o] \in {"COMMITTED", "ABORTED"}

\* C22: under any interleaving a write operation that asks for a lock is answered
\* at once, whoever holds the lock, and every write operation that was called
\* ends COMMITTED or ABORTED.
C22_Terminates ==
    /\ []C22_NeverWaitsForLock
    /\ \A o \in 1..NumOps : (pc[o] = "STARTED") ~> Terminal(o)

\* Both calls have ended: one committed, and the other, whose insert waited for
\* that commit, was then refused by the unique constraint.
C22_Witness ==
    \E o, t \in 1..NumOps :
        /\ Committed(t) /\ pc[o] = "ABORTED" /\ err[o].code = "23505"
        /\ \A u \in 1..NumOps : Terminal(u)

\* The states an operation of the given kind can enter from state p.
Successors(kind, p) ==
    CASE p = "idle" -> {"STARTED"}
      [] p = "STARTED" -> {"IDEMPOTENT_CHECKED", "ABORTED"}
      [] p = "IDEMPOTENT_CHECKED" -> {"LOCKED", "ABORTED"}
      [] p = "LOCKED" ->
            (IF kind = "creditOnly" THEN {"ENTRIES_WRITTEN"} ELSE {"BALANCE_VERIFIED"})
                \cup {"ABORTED"}
      [] p = "BALANCE_VERIFIED" ->
            (IF kind = "transfer" THEN {"DEBIT_WRITTEN"} ELSE {"ENTRIES_WRITTEN"})
                \cup {"ABORTED"}
      [] p = "DEBIT_WRITTEN" -> {"ENTRIES_WRITTEN", "ABORTED"}
      [] p = "ENTRIES_WRITTEN" -> {"COMMITTED", "ABORTED"}
      [] OTHER -> {}

C23_Order ==
    \A o \in OpIds :
        pc'[o] # pc[o] =>
            pc'[o] \in Successors(IF pc[o] = "idle" THEN req'[o].kind ELSE req[o].kind, pc[o])

C23_WritesAfterLocksAndCheck ==
    \A o \in OpIds :
        (InFlight(o) /\ written[o] # {}) =>
            /\ pc[o] \in {"DEBIT_WRITTEN", "ENTRIES_WRITTEN"}
            /\ LockSet(o) \subseteq rowLocks[o]
            /\ Debiting(o) => CheckedBalance(o) >= req[o].amount

C23_AbortPossible ==
    \A o \in OpIds : InFlight(o) => ENABLED (QueryError(o) /\ UNCHANGED <<calledAt, apiVars>>)

\* C23: the steps of a write operation occur in the order idempotency check,
\* lock acquisition, balance verification, entry writes, commit; an operation
\* that has written an entry holds the locks of all its accounts and, if it
\* debits, has passed the sufficiency check; the aborted state can be entered
\* from every non-terminal state, and a terminal state is never left.
C23_StepOrder ==
    /\ [](C23_WritesAfterLocksAndCheck /\ C23_AbortPossible)
    /\ [][C23_Order]_vars

\* The account with the smallest id among those operation o asked to lock and
\* does not hold yet.
NextInAscendingOrder(o) ==
    CHOOSE w \in LockSet(o) \ rowLocks[o] : \A v \in LockSet(o) \ rowLocks[o] : w <= v

C24_Attempt ==
    \A o \in OpIds :
        (/\ pc[o] = "IDEMPOTENT_CHECKED"
         /\ rowLocks'[o] # rowLocks[o] \/ pc'[o] = "ABORTED") =>
            IF pc'[o] = "ABORTED"
            THEN \E t \in OpIds \ {o} : NextInAscendingOrder(o) \in rowLocks[t]
            ELSE rowLocks'[o] = rowLocks[o] \cup {NextInAscendingOrder(o)}

C24_HeldLowestFirst ==
    \A o \in OpIds :
        InFlight(o) =>
            \A w \in rowLocks[o] : \A v \in LockSet(o) : v < w => v \in rowLocks[o]

\* C24: whatever order the caller passes the accounts in, an operation attempts
\* their locks in ascending id order: each attempt, whether it takes the lock or
\* fails on it, is for the smallest account not yet held, so the locks an
\* operation holds are always the lowest of its accounts and two operations
\* sharing accounts attempt them in the same relative order.
C24_AscendingOrder == []C24_HeldLowestFirst /\ [][C24_Attempt]_vars

\* A transfer whose source has the larger id holds the lock of its target only,
\* and another, in the opposite direction, failed on that lock.
C24_Witness ==
    \E o, t \in OpIds :
        /\ req[o].kind = "transfer" /\ req[o].sourceWalletId > req[o].targetWalletId
        /\ pc[o] = "IDEMPOTENT_CHECKED" /\ rowLocks[o] = {req[o].targetWalletId}
        /\ req[t].kind = "transfer" /\ req[t].sourceWalletId < req[t].targetWalletId
        /\ pc[t] = "ABORTED" /\ err[t] = ConcurrencyError

C25_Exclusive ==
    \A o \in OpIds, t \in OpIds : o # t => rowLocks[o] \cap rowLocks[t] = {}

C25_NoneAfterEnd == \A o \in OpIds : ~InFlight(o) => rowLocks[o] = {}

C25_HeldUntilEnd ==
    \A o \in OpIds :
        /\ (InFlight(o) /\ InFlight(o)') => rowLocks[o] \subseteq rowLocks'[o]
        /\ (InFlight(o) /\ ~InFlight(o)') => rowLocks'[o] = {}

\* C25: no account is locked by two operations at the same time; an operation
\* keeps every lock it has taken for as long as it is in flight, and holds none
\* once it has committed or rolled back.
C25_Locks == [](C25_Exclusive /\ C25_NoneAfterEnd) /\ [][C25_HeldUntilEnd]_vars

\* A transfer holds the locks of its two accounts and has written its entries,
\* while another operation that wanted one of them was aborted and holds none.
C25_Witness ==
    \E o, t \in OpIds :
        /\ req[o].kind = "transfer" /\ pc[o] = "ENTRIES_WRITTEN"
        /\ Cardinality(rowLocks[o]) = 2
        /\ pc[t] = "ABORTED" /\ errorHandler(err[t]).code \in RetryableCodes
        /\ LockSet(t) \cap rowLocks[o] # {} /\ rowLocks[t] = {}

C26_WrittenUnderLock ==
    \A o \in OpIds :
        InFlight(o) => \A e \in written[o] : e.wallet_id \in rowLocks[o]

C26_AllOrAbort ==
    \A o \in OpIds :
        (pc[o] = "IDEMPOTENT_CHECKED" /\ pc'[o] \notin {"IDEMPOTENT_CHECKED", "ABORTED"}) =>
            LockSet(o) \subseteq rowLocks'[o]

\* C26: the lock step of an operation ends either with every requested account
\* locked or with the operation aborted, also when a requested account has been
\* deactivated, and every entry is written while the writing operation holds
\* the lock of the entry's account.
C26_LockedWrites == []C26_WrittenUnderLock /\ [][C26_AllOrAbort]_vars

\* The variables other than the balance cache.
engineVars ==
    <<ledger, written, reads, snapshot, rowLocks, pc, req, err, res, commitSeq, calledAt,
      is_active, metadata, nextId>>

\* The step in which operation o makes its sufficiency check is decided by the
\* balance of the rows of its snapshot, whatever the cache holds.
C27_Verdict ==
    \A o \in OpIds :
        (Debiting(o) /\ pc[o] = "LOCKED" /\ pc'[o] # "LOCKED") =>
            IF CheckedBalance(o) >= req[o].amount
            THEN pc'[o] = "ABORTED" => err'[o].code # "INSUFFICIENT_FUNDS"
            ELSE /\ pc'[o] = "ABORTED"
                 /\ err'[o].code = "INSUFFICIENT_FUNDS" => err'[o].available = CheckedBalance(o)

C27_Result ==
    \A o \in OpIds :
        Commits(o) =>
            /\ res'[o].newBalance = Balance(req[o].targetWalletId, req[o].assetTypeId)'
            /\ ledger' = ledger \cup written[o]

C27_RefreshOnlyCache == wallet_balances' # wallet_balances => UNCHANGED engineVars

\* C27: the outcome of a write operation does not depend on the balance cache:
\* its sufficiency check is decided by, and reports, the balance of the ledger
\* rows the transaction sees, its result is the balance of the committed ledger,
\* it commits the entries it wrote, and a refresh of the cache changes nothing
\* but the cache.
C27_CacheIndependent == [][C27_Verdict /\ C27_Result /\ C27_RefreshOnlyCache]_vars

\* A spend was refused for insufficient funds while the cache, stale since
\* another spend committed, showed a balance that covers it.
C27_Witness ==
    \E o, t \in OpIds :
        /\ api[t].endpoint = "spend" /\ Committed(t)
        /\ api[o].endpoint = "spend" /\ pc[o] = "ABORTED"
        /\ err[o].code = "INSUFFICIENT_FUNDS"
        /\ wallet_balances[<<api[o].user_id, api[o].asset_code>>] >= req[o].amount
        /\ Balance(api[o].user_id, api[o].asset_code) < req[o].amount

\* The cache holds the real-time balance of every pair of an active wallet.
C28_AsRealtime ==
    \A w \in Wallets, a \in Assets :
        is_active[w] =>
            /\ wallet_balances[<<w, a>>] = Balance(w, a)
            /\ {e \in ledger : e.wallet_id = w /\ e.asset_type_id = a} = {} =>
                   wallet_balances[<<w, a>>] = 0

\* The cache as a refresh leaves it: real-time balances, no row for a
\* deactivated wallet.
C28_Refreshed ==
    /\ C28_AsRealtime
    /\ \A w \in Wallets, a \in Assets : ~is_active[w] => wallet_balances[<<w, a>>] = NoInt

C28_RefreshStep == wallet_balances' # wallet_balances => C28_Refreshed'

C28_SecondRefresh == C28_Refreshed => ~ENABLED refreshBalancesView

C29_NoLockTaken == history' # history => UNCHANGED <<engineVars, wallet_balances>>

\* The balance getBalance returns is the balance of the seed and of some
\* committed transactions, each counted whole.
C29_BalanceCommitted ==
    \A w \in Wallets, a \in Assets :
        \E T \in SUBSET {t \in OpIds : Committed(t)} :
            getBalance(w, a) = calculateBalance({e \in ledger : e.xmin \in T \cup {SeedXid}}, w, a)

\* Every row of a history response is a committed row, all the rows its
\* transaction wrote are committed with it, and no row of the pair that was
\* committed before the rows shown is left out.
C29_HistoryCommitted ==
    history' # history =>
        /\ \A i \in DOMAIN history'.transactions :
              \E e \in ledger :
                  /\ e.id = history'.transactions[i].id
                  /\ e.xmin \in OpIds => (Committed(e.xmin) /\ written[e.xmin] \subseteq ledger)
        /\ \A o \in OpIds : InFlight(o) =>
              \A e \in written[o], i \in DOMAIN history'.transactions :
                  e.id # history'.transactions[i].id

\* C29: the read operations take no account lock and wait for none: a history
\* query changes no lock and no operation's state, and what the reads return
\* comes from committed transactions only, each with all its entries.
C29_Reads == []C29_BalanceCommitted /\ [][C29_NoLockTaken /\ C29_HistoryCommitted]_vars

\* A history of a pair was returned, complete from its newest row, that lacks
\* the entry a write in flight, which holds the lock on the account, has
\* written to the pair.
C29_Witness ==
    \E o \in OpIds :
        /\ InFlight(o) /\ history.walletId \in rowLocks[o]
        /\ \E e \in written[o] :
               e.wallet_id = history.walletId /\ e.asset_type_id = history.assetTypeId
        /\ history.offset = 0 /\ ~history.hasMore
        /\ Len(history.transactions) > 0
        /\ history = getTransactionHistoryWithBalance(ledger, history.walletId,
                                                      history.assetTypeId, history.limit, 0)

\* The step operation o takes when it inserts an entry is one the same call
\* without metadata takes from the same state.
C30_SameStep ==
    \A o \in OpIds :
        /\ (pc[o] = "BALANCE_VERIFIED" /\ pc'[o] # pc[o]) =>
               insertLedgerEntryWith(o, NewRow(o, "DEBIT", req[o].sourceWalletId,
                                               req[o].referenceId),
                                     {reads}, "DEBIT_WRITTEN", NoMetadata)
        /\ (pc[o] = "DEBIT_WRITTEN" /\ pc'[o] # pc[o]) =>
               insertLedgerEntryWith(o, NewRow(o, "CREDIT", req[o].targetWalletId,
                                               req[o].referenceId \o "_credit"),
                                     NewBalanceRead(o), "ENTRIES_WRITTEN", NoMetadata)

\* C30: the metadata of a call has no part in what the engine does: every step
\* in which an operation inserts an entry, or fails to, is a step the same call
\* with no metadata takes from the same state.
C30_MetadataIgnored == [][C30_SameStep]_vars

C31_PositiveAmounts == \A e \in ledger : e.amount \in Nat \ {0}

C31_NothingCommitted ==
    \A o \in OpIds :
        (pc[o] # "idle" /\ req[o].amount <= 0) =>
            /\ pc[o] # "COMMITTED"
            /\ \A e \in ledger : e.xmin # o

\* C31: every committed entry has a strictly positive amount, and an operation
\* called with an amount of zero or less commits no entry.
C31_Amounts == C31_PositiveAmounts /\ C31_NothingCommitted

\* A transfer called with amount zero held its locks, passed the sufficiency
\* check and was refused by the store's check on the amount of its first entry.
C31_Witness ==
    \E o \in OpIds :
        /\ req[o].kind = "transfer" /\ req[o].amount = 0
        /\ pc[o] = "ABORTED" /\ err[o].code = "23514"
        /\ ledger = SeedEntries

\* C32: an operation is answered as a duplicate only if another operation,
\* called with the same reference key, has committed; so an operation whose
\* key is that of a transfer followed by "_credit" is taken as new.
C32_DuplicateOnlyOfSameKey ==
    \A o \in OpIds :
        (pc[o] = "ABORTED" /\ errorHandler(err[o]).code = "DUPLICATE_TRANSACTION") =>
            \E t \in OpIds \ {o} : Committed(t) /\ req[t].referenceId = req[o].referenceId

C33_NoUniqueViolation ==
    \A o \in OpIds :
        (req[o].kind = "transfer" /\ pc[o] \in {"BALANCE_VERIFIED", "DEBIT_WRITTEN"}
            /\ pc'[o] = "ABORTED") => err'[o].code # "23505"

\* A transfer commits only with both its entries.
C33_BothEntries ==
    \A o \in OpIds :
        (req[o].kind = "transfer" /\ Committed(o)) =>
            {e.entry_type : e \in {e \in ledger : e.xmin = o}} = {"DEBIT", "CREDIT"}

\* C33: a transfer that has passed its sufficiency check is never aborted by
\* the store's uniqueness constraint, also when a credit-only operation has
\* committed with the transfer's key followed by "_credit", and a committed
\* transfer has written both its entries.
C33_TransferNotRefused == []C33_BothEntries /\ [][C33_NoUniqueViolation]_vars

\* The committed entries of the operations called with reference key k.
EntriesOfKey(k) ==
    {e \in ledger : e.xmin \in OpIds /\ Committed(e.xmin) /\ req[e.xmin].referenceId = k}

\* C34: getTransactionDetails(K) answers not-found exactly if no operation has
\* committed with reference key K, and otherwise returns exactly the entries
\* of the operation called with K, all with the transaction id of the answer.
C34_Details ==
    [][details' # details =>
        LET k == details'.reference_id IN
        IF EntriesOfKey(k) = {}
        THEN details'.code = "TRANSACTION_NOT_FOUND"
        ELSE /\ details'.code = "COMPLETED"
             /\ details'.ledger_entries = EntriesOfKey(k)
             /\ \A e \in details'.ledger_entries : e.transaction_id = details'.transaction_id]_vars

\* The system wallet a top-up or spend uses besides the user's wallet.
SharedWallet(o) == IF api[o].endpoint = "topup" THEN TreasuryWallet ELSE RevenueWallet

\* o and t are two spends, or two top-ups of one asset, by different users.
SameSharedWallet(o, t) ==
    /\ o # t /\ api[o] # NoApiRequest /\ api[t] # NoApiRequest
    /\ api[o].endpoint = api[t].endpoint /\ api[o].asset_code = api[t].asset_code
    /\ api[o].user_id # api[t].user_id

\* Both operations hold a lock.
C35_Overlap(o, t) == rowLocks[o] # {} /\ rowLocks[t] # {}

\* An operation that has finished its lock step holds the locks of the user's
\* wallet and of the system wallet, and no two operations hold a lock on the
\* same wallet.
C35_SharedLocked ==
    \A o \in 1..NumOps :
        (api[o] # NoApiRequest /\ HoldsAllLocks(o)) =>
            /\ rowLocks[o] = {api[o].user_id, SharedWallet(o)}
            /\ \A t \in OpIds \ {o} : SharedWallet(o) \notin rowLocks[t]

\* Of two such operations that hold locks at the same time, at most one
\* commits, and the answer to one that aborts invites the caller to retry.
C35_AtMostOneCommits ==
    \A o \in 1..NumOps, t \in 1..NumOps :
        []((SameSharedWallet(o, t) /\ C35_Overlap(o, t)) =>
              [](/\ ~(Committed(o) /\ Committed(t))
                 /\ pc[o] = "ABORTED" => errorHandler(err[o]).code \in RetryableCodes))

\* C35: a top-up locks the treasury wallet and a spend the revenue wallet
\* besides the user's wallet; of two spends, or two top-ups of one asset, by
\* different users that hold locks at the same time at most one commits, and
\* an aborted one is answered with a retryable error.
C35_SharedWalletContention ==
    []C35_SharedLocked /\ C35_AtMostOneCommits

\* The second user's spend committed; the first user's spend, holding the lock
\* on the user's wallet, found the revenue wallet locked and was turned away.
C35_Witness ==
    /\ api[1].endpoint = "spend" /\ api[2].endpoint = "spend"
    /\ Committed(2)
    /\ pc[1] = "ABORTED" /\ err[1] = ConcurrencyError

\* The position of the COMMIT that made entry e visible; the seed comes first.
CommitPosition(e) == IF e.xmin = SeedXid THEN 0 ELSE commitSeq[e.xmin]

\* The real-time balance of e's pair immediately after e's operation committed.
BalanceAtCommit(e) ==
    calculateBalance({f \in ledger : CommitPosition(f) <= CommitPosition(e)},
                     e.wallet_id, e.asset_type_id)

\* Entries of one pair sort, by creation time and id, in the order in which
\* their operations committed.
C36_OrderIsCommitOrder ==
    \A e \in ledger, f \in ledger :
        (e.wallet_id = f.wallet_id /\ e.asset_type_id = f.asset_type_id /\ OrderedBefore(e, f)) =>
            CommitPosition(e) <= CommitPosition(f)

\* Each row of a history answer carries the balance its pair had when the
\* row's operation committed, which is not negative. (The DEBIT row of a
\* transfer from a wallet to itself is followed by the CREDIT row of the same
\* commit and is left aside.)
C36_RunningBalance ==
    history' # history =>
        \A i \in DOMAIN history'.transactions :
            LET item == history'.transactions[i]
                e == CHOOSE e \in ledger : e.id = item.id
            IN  /\ item.balance_after >= 0
                /\ (\A f \in ledger \ {e} : ~(f.xmin = e.xmin /\ f.wallet_id = e.wallet_id)) =>
                       item.balance_after = BalanceAtCommit(e)

\* C36: for the entries of one pair the order by creation time and id is the
\* order of their commits, so each history row's running balance is the
\* pair's real-time balance just after the row's operation committed, and is
\* never negative.
C36_HistoryFollowsCommits == []C36_OrderIsCommitOrder /\ [][C36_RunningBalance]_vars

\* The sum of the real-time balances of asset a over the wallets ws.
RECURSIVE SumOfBalances(_, _)
SumOfBalances(ws, a) ==
    IF ws = {} THEN 0
    ELSE LET w == CHOOSE w \in ws : TRUE
         IN  Balance(w, a) + SumOfBalances(ws \ {w}, a)

\* What a step adds to the sum of the balances of asset a: the amount of a
\* credit-only operation of a that commits in it, minus the amount of a
\* debit-only one, and nothing otherwise.
C37_Change(a) ==
    IF \E o \in OpIds : Commits(o) /\ req[o].assetTypeId = a /\ req[o].kind # "transfer"
    THEN LET o == CHOOSE o \in OpIds : Commits(o) IN
         IF req[o].kind = "creditOnly" THEN req[o].amount ELSE 0 - req[o].amount
    ELSE 0

\* C37: for every asset the sum of the balances of all wallets is changed by
\* no transfer and by no aborted operation; a credit-only operation that
\* commits adds its amount, a debit-only one takes its amount away.
C37_Conservation ==
    [][\A a \in Assets :
          SumOfBalances(Wallets, a)' = SumOfBalances(Wallets, a) + C37_Change(a)]_vars

\* A transfer between two wallets and a debit-only operation have both
\* committed, and the sum of the balances of the asset is the seeded sum less
\* the amount debited.
C37_Witness ==
    \E o, t \in OpIds :
        /\ req[o].kind = "transfer" /\ req[o].sourceWalletId # req[o].targetWalletId
        /\ Committed(o)
        /\ req[t].kind = "debitOnly" /\ Committed(t) /\ req[t].assetTypeId = req[o].assetTypeId
        /\ SumOfBalances(Wallets, req[t].assetTypeId)
               = SeedAmount * Cardinality(Wallets) - req[t].amount

\* C38: the running balance of the first entry of a history response asked at
\* offset 0 is the real-time balance of the pair, computed over the committed
\* entries the query has read.
C38_NewestIsRealtime ==
    [][(history' # history /\ history'.offset = 0 /\ Len(history'.transactions) > 0) =>
           history'.transactions[1].balance_after
               = calculateBalance(ledger, history'.walletId, history'.assetTypeId)]_vars

\* A history response asked at offset 0, after a write on the pair has
\* committed: its first entry is not a seed entry and carries the real-time
\* balance of the pair, which is not the balance of the seed.
C38_Witness ==
    /\ history.offset = 0
    /\ Len(history.transactions) > 0
    /\ history.transactions[1].created_at > 0
    /\ history.transactions[1].balance_after # SeedAmount
    /\ history.transactions[1].balance_after
           = calculateBalance(ledger, history.walletId, history.assetTypeId)

\* withTransaction(callback, isolationLevel), one step per await. Every query
\* on the connection and the callback either resolves or rejects.
withTransactionVars ==
    <<ledger, written, reads, snapshot, rowLocks, pc, req, err, res, commitSeq, calledAt,
      wallet_balances, api, response, history, is_active, metadata, details, nextId>>

\* const client = await getPool().connect(): the pool hands a connection out,
\* or rejects (connectionTimeoutMillis) before the try block is entered.
connect(c) ==
    /\ client[c].pc = "idle"
    /\ \/ client' = [client EXCEPT ![c].pc = "try"]
       \/ client' = [client EXCEPT ![c].pc = "settled", ![c].failed = "connect"]
    /\ UNCHANGED withTransactionVars

\* await client.query(`BEGIN ISOLATION LEVEL ${isolationLevel}`)
queryBegin(c) ==
    /\ client[c].pc = "try"
    /\ \/ client' = [client EXCEPT ![c].pc = "callback",
                                   ![c].queries = Append(@, "BEGIN")]
       \/ client' = [client EXCEPT ![c].pc = "catch", ![c].failed = "BEGIN",
                                   ![c].queries = Append(@, "BEGIN")]
    /\ UNCHANGED withTransactionVars

\* const result = await callback(client)
callback(c) ==
    /\ client[c].pc = "callback"
    /\ \/ client' = [client EXCEPT ![c].pc = "commit"]
       \/ client' = [client EXCEPT ![c].pc = "catch", ![c].failed = "callback"]
    /\ UNCHANGED withTransactionVars

\* await client.query('COMMIT'); return result;
queryCommit(c) ==
    /\ client[c].pc = "commit"
    /\ \/ client' = [client EXCEPT ![c].pc = "finally",
                                   ![c].queries = Append(@, "COMMIT")]
       \/ client' = [client EXCEPT ![c].pc = "catch", ![c].failed = "COMMIT",
                                   ![c].queries = Append(@, "COMMIT")]
    /\ UNCHANGED withTransactionVars

\* catch (error) { await client.query('ROLLBACK'); throw error; }: the promise
\* rejects with error, or with the error of the ROLLBACK.
catch(c) ==
    /\ client[c].pc = "catch"
    /\ \E rejected \in BOOLEAN :
          client' = [client EXCEPT ![c].pc = "finally", ![c].rollbackFailed = rejected,
                                   ![c].queries = Append(@, "ROLLBACK")]
    /\ UNCHANGED withTransactionVars

finallyOnReturn(c) ==
    /\ client[c].pc = "finally"
    /\ client' = [client EXCEPT ![c].pc = "settled",
                                ![c].released = IF client[c].failed = "none" THEN @ + 1 ELSE @]
    /\ UNCHANGED withTransactionVars

\* finally { client.release(); }
finally(c) ==
    /\ client[c].pc = "finally"
    /\ client' = [client EXCEPT ![c].pc = "settled", ![c].released = @ + 1]
    /\ UNCHANGED withTransactionVars

\* NumOps concurrent calls of withTransaction.
NextWithTransaction ==
    \E c \in 1..NumOps :
        \/ connect(c)
        \/ queryBegin(c)
        \/ callback(c)
        \/ queryCommit(c)
        \/ catch(c)
        \/ finally(c)

SpecWithTransaction == Init /\ [][NextWithTransaction]_vars

\* The queries call c has issued on its connection.
Issued(c) == {client[c].queries[i] : i \in 1..Len(client[c].queries)}

\* C39: a call of withTransaction that has settled has released the connection
\* it acquired exactly once, whether it committed or BEGIN, the callback,
\* COMMIT or ROLLBACK failed, and no call releases more than once or a
\* connection it never got; once BEGIN, the callback or COMMIT has failed the
\* catch block issues ROLLBACK; COMMIT is never issued after the callback failed.
C39_WithTransaction ==
    \A c \in 1..NumOps :
        /\ client[c].released =
               (IF client[c].pc = "settled" /\ client[c].failed # "connect" THEN 1 ELSE 0)
        /\ (client[c].failed \in {"BEGIN", "callback", "COMMIT"}
                /\ client[c].pc \in {"finally", "settled"})
               => /\ "ROLLBACK" \in Issued(c)
                  /\ client[c].queries[Len(client[c].queries)] = "ROLLBACK"
        /\ client[c].failed = "callback" => "COMMIT" \notin Issued(c)
        /\ client[c].failed \in {"none", "connect"} => "ROLLBACK" \notin Issued(c)

\* One call whose COMMIT and then ROLLBACK failed and one whose callback
\* failed have both settled, each after releasing its connection once.
C39_Witness ==
    \E c, d \in 1..NumOps :
        /\ client[c].pc = "settled" /\ client[c].failed = "COMMIT"
        /\ client[c].rollbackFailed /\ client[c].released = 1
        /\ client[c].queries = <<"BEGIN", "COMMIT", "ROLLBACK">>
        /\ client[d].pc = "settled" /\ client[d].failed = "callback"
        /\ client[d].queries = <<"BEGIN", "ROLLBACK">> /\ client[d].released = 1

====
